---- MODULE Spec2Model ----
(***************************************************************************)
(* PollsBot (src/polls_bot.py): the decision engine, the per-user          *)
(* conversation state machine and the store they read and write.          *)
(*                                                                         *)
(* Text is modelled as a sequence of Unicode code points, so that          *)
(* str.lower, str.strip, str.split and the substring test `in` are         *)
(* computed as Python computes them.  The comment after a literal gives    *)
(* its transliteration.                                                    *)
(***************************************************************************)
EXTENDS Integers, Sequences, FiniteSets, TLC

(***************************************************************************)
(* Text helpers (Python str methods)                                       *)
(***************************************************************************)

\* Python: sub in s
Contains(sub, s) ==
  \E i \in 0..(Len(s) - Len(sub)) : SubSeq(s, i + 1, i + Len(sub)) = sub

\* str.lower on one character: Latin A-Z, Cyrillic A-YA, and YO
LowerChar(c) ==
  IF c >= 65 /\ c <= 90 THEN c + 32
  ELSE IF c >= 1040 /\ c <= 1071 THEN c + 32
  ELSE IF c = 1025 THEN 1105
  ELSE c

Lower(s) == [i \in 1..Len(s) |-> LowerChar(s[i])]

\* the characters str.strip() and str.split() treat as whitespace
Whitespace == {9, 10, 11, 12, 13, 32}

\* a text of n characters c
Repeat(c, n) == [i \in 1..n |-> c]

\* the k-th least element of a set of numbers
NthLeast(S, k) == CHOOSE x \in S : Cardinality({y \in S : y < x}) = k - 1

LStrip(s, chars) ==
  LET kept == {i \in 1..Len(s) : s[i] \notin chars}
  IN  IF kept = {} THEN <<>> ELSE SubSeq(s, NthLeast(kept, 1), Len(s))

RStrip(s, chars) ==
  LET kept == {i \in 1..Len(s) : s[i] \notin chars}
  IN  IF kept = {} THEN <<>> ELSE SubSeq(s, 1, NthLeast(kept, Cardinality(kept)))

Strip(s, chars) == RStrip(LStrip(s, chars), chars)

\* str.split(): the maximal runs of non-whitespace characters
Split(s) ==
  LET first == {i \in 1..Len(s) : s[i] \notin Whitespace /\ (i = 1 \/ s[i - 1] \in Whitespace)}
      last == {i \in 1..Len(s) : s[i] \notin Whitespace /\ (i = Len(s) \/ s[i + 1] \in Whitespace)}
  IN  [k \in 1..Cardinality(first) |-> SubSeq(s, NthLeast(first, k), NthLeast(last, k))]

\* '.,!?;:' of rstrip in determine_voting_type
TrailingPunct == {46, 44, 33, 63, 59, 58}

\* '.,!?;:()[]{}"\'' of word.strip in determine_voting_type
WordPunct == {46, 44, 33, 63, 59, 58, 40, 41, 91, 93, 123, 125, 34, 39}

(***************************************************************************)
(* Voting-type classification                                              *)
(***************************************************************************)

\* the distinct entries of positive_keywords
positive_keywords ==
  {
    <<1073, 1077, 1079, 1091, 1089, 1083, 1086, 1074, 1085, 1086>>,  \* bezuslovno
    <<1074, 32, 1087, 1086, 1083, 1100, 1079, 1091>>,  \* v pol'zu
    <<1076, 1072>>,  \* da
    <<1076, 1072, 33>>,  \* da!
    <<1076, 1072, 44>>,  \* da,
    <<1076, 1072, 46>>,  \* da.
    <<1076, 1072, 46, 46, 46>>,  \* da...
    <<1076, 1072, 63>>,  \* da?
    <<1079, 1072>>,  \* za
    <<1079, 1072, 32, 1087, 1088, 1080, 1085, 1103, 1090, 1080, 1077>>,  \* za prinyatie
    <<1079, 1072, 32, 1091, 1090, 1074, 1077, 1088, 1078, 1076, 1077, 1085, 1080, 1077>>,  \* za utverzhdenie
    <<1079, 1072, 33>>,  \* za!
    <<1079, 1072, 44>>,  \* za,
    <<1079, 1072, 46>>,  \* za.
    <<1079, 1072, 46, 46, 46>>,  \* za...
    <<1079, 1072, 63>>,  \* za?
    <<1082, 1086, 1085, 1077, 1095, 1085, 1086>>,  \* konechno
    <<1085, 1077, 1089, 1086, 1084, 1085, 1077, 1085, 1085, 1086>>,  \* nesomnenno
    <<1086, 1076, 1086, 1073, 1088, 1077, 1085, 1080, 1077>>,  \* odobrenie
    <<1086, 1076, 1086, 1073, 1088, 1080, 1090, 1100>>,  \* odobrit'
    <<1086, 1076, 1086, 1073, 1088, 1103, 1102>>,  \* odobryayu
    <<1086, 1076, 1086, 1073, 1088, 1103, 1102, 33>>,  \* odobryayu!
    <<1086, 1076, 1086, 1073, 1088, 1103, 1102, 44>>,  \* odobryayu,
    <<1086, 1076, 1086, 1073, 1088, 1103, 1102, 46>>,  \* odobryayu.
    <<1086, 1076, 1086, 1073, 1088, 1103, 1102, 63>>,  \* odobryayu?
    <<1087, 1086, 1076, 1076, 1077, 1088, 1078, 1080, 1074, 1072, 1102>>,  \* podderzhivayu
    <<1087, 1086, 1076, 1076, 1077, 1088, 1078, 1080, 1074, 1072, 1102, 33>>,  \* podderzhivayu!
    <<1087, 1086, 1076, 1076, 1077, 1088, 1078, 1080, 1074, 1072, 1102, 44>>,  \* podderzhivayu,
    <<1087, 1086, 1076, 1076, 1077, 1088, 1078, 1080, 1074, 1072, 1102, 46>>,  \* podderzhivayu.
    <<1087, 1086, 1076, 1076, 1077, 1088, 1078, 1082, 1072>>,  \* podderzhka
    <<1087, 1086, 1083, 1086, 1078, 1080, 1090, 1077, 1083, 1100, 1085, 1086>>,  \* polozhitel'no
    <<1087, 1088, 1080, 1085, 1080, 1084, 1072, 1102>>,  \* prinimayu
    <<1087, 1088, 1080, 1085, 1080, 1084, 1072, 1102, 33>>,  \* prinimayu!
    <<1087, 1088, 1080, 1085, 1080, 1084, 1072, 1102, 44>>,  \* prinimayu,
    <<1087, 1088, 1080, 1085, 1080, 1084, 1072, 1102, 46>>,  \* prinimayu.
    <<1087, 1088, 1080, 1085, 1080, 1084, 1072, 1102, 63>>,  \* prinimayu?
    <<1087, 1088, 1080, 1085, 1103, 1090, 1080, 1077>>,  \* prinyatie
    <<1087, 1088, 1080, 1085, 1103, 1090, 1100>>,  \* prinyat'
    <<1088, 1072, 1079, 1091, 1084, 1077, 1077, 1090, 1089, 1103>>,  \* razumeetsya
    <<1089, 1086, 1075, 1083, 1072, 1089, 1077, 1085>>,  \* soglasen
    <<1089, 1086, 1075, 1083, 1072, 1089, 1077, 1085, 33>>,  \* soglasen!
    <<1089, 1086, 1075, 1083, 1072, 1089, 1077, 1085, 44>>,  \* soglasen,
    <<1089, 1086, 1075, 1083, 1072, 1089, 1077, 1085, 46>>,  \* soglasen.
    <<1089, 1086, 1075, 1083, 1072, 1089, 1077, 1085, 63>>,  \* soglasen?
    <<1089, 1086, 1075, 1083, 1072, 1089, 1080, 1077>>,  \* soglasie
    <<1089, 1086, 1075, 1083, 1072, 1096, 1072, 1102, 1089, 1100>>,  \* soglashayus'
    <<1091, 1090, 1074, 1077, 1088, 1076, 1080, 1090, 1100>>,  \* utverdit'
    <<1091, 1090, 1074, 1077, 1088, 1078, 1076, 1072, 1102>>,  \* utverzhdayu
    <<1091, 1090, 1074, 1077, 1088, 1078, 1076, 1072, 1102, 33>>,  \* utverzhdayu!
    <<1091, 1090, 1074, 1077, 1088, 1078, 1076, 1072, 1102, 44>>,  \* utverzhdayu,
    <<1091, 1090, 1074, 1077, 1088, 1078, 1076, 1072, 1102, 46>>,  \* utverzhdayu.
    <<1091, 1090, 1074, 1077, 1088, 1078, 1076, 1072, 1102, 63>>,  \* utverzhdayu?
    <<1091, 1090, 1074, 1077, 1088, 1078, 1076, 1077, 1085, 1080, 1077>>   \* utverzhdenie
  }

\* the distinct entries of negative_keywords
negative_keywords ==
  {
    <<1085, 1077>>,  \* ne
    <<1085, 1077, 32, 1086, 1076, 1086, 1073, 1088, 1103, 1102>>,  \* ne odobryayu
    <<1085, 1077, 32, 1086, 1076, 1086, 1073, 1088, 1103, 1102, 33>>,  \* ne odobryayu!
    <<1085, 1077, 32, 1086, 1076, 1086, 1073, 1088, 1103, 1102, 44>>,  \* ne odobryayu,
    <<1085, 1077, 32, 1086, 1076, 1086, 1073, 1088, 1103, 1102, 46>>,  \* ne odobryayu.
    <<1085, 1077, 32, 1087, 1086, 1076, 1076, 1077, 1088, 1078, 1080, 1074, 1072, 1102>>,  \* ne podderzhivayu
    <<1085, 1077, 32, 1087, 1086, 1076, 1076, 1077, 1088, 1078, 1080, 1074, 1072, 1102, 33>>,  \* ne podderzhivayu!
    <<1085, 1077, 32, 1087, 1086, 1076, 1076, 1077, 1088, 1078, 1080, 1074, 1072, 1102, 44>>,  \* ne podderzhivayu,
    <<1085, 1077, 32, 1087, 1086, 1076, 1076, 1077, 1088, 1078, 1080, 1074, 1072, 1102, 46>>,  \* ne podderzhivayu.
    <<1085, 1077, 32, 1087, 1088, 1080, 1085, 1080, 1084, 1072, 1102>>,  \* ne prinimayu
    <<1085, 1077, 32, 1087, 1088, 1080, 1085, 1080, 1084, 1072, 1102, 33>>,  \* ne prinimayu!
    <<1085, 1077, 32, 1087, 1088, 1080, 1085, 1080, 1084, 1072, 1102, 44>>,  \* ne prinimayu,
    <<1085, 1077, 32, 1087, 1088, 1080, 1085, 1080, 1084, 1072, 1102, 46>>,  \* ne prinimayu.
    <<1085, 1077, 32, 1089, 1086, 1075, 1083, 1072, 1089, 1077, 1085>>,  \* ne soglasen
    <<1085, 1077, 32, 1089, 1086, 1075, 1083, 1072, 1089, 1077, 1085, 33>>,  \* ne soglasen!
    <<1085, 1077, 32, 1089, 1086, 1075, 1083, 1072, 1089, 1077, 1085, 44>>,  \* ne soglasen,
    <<1085, 1077, 32, 1089, 1086, 1075, 1083, 1072, 1089, 1077, 1085, 46>>,  \* ne soglasen.
    <<1085, 1077, 32, 1089, 1086, 1075, 1083, 1072, 1096, 1072, 1102, 1089, 1100>>,  \* ne soglashayus'
    <<1085, 1077, 32, 1091, 1090, 1074, 1077, 1088, 1078, 1076, 1072, 1102>>,  \* ne utverzhdayu
    <<1085, 1077, 1089, 1086, 1075, 1083, 1072, 1089, 1080, 1077>>,  \* nesoglasie
    <<1085, 1077, 1090>>,  \* net
    <<1085, 1077, 1090, 33>>,  \* net!
    <<1085, 1077, 1090, 44>>,  \* net,
    <<1085, 1077, 1090, 46>>,  \* net.
    <<1085, 1077, 1090, 46, 46, 46>>,  \* net...
    <<1085, 1077, 1090, 63>>,  \* net?
    <<1085, 1080>>,  \* ni
    <<1085, 1080, 32, 1079, 1072, 32, 1095, 1090, 1086>>,  \* ni za chto
    <<1085, 1080, 1082, 1086, 1075, 1076, 1072>>,  \* nikogda
    <<1086, 1090, 1082, 1072, 1079>>,  \* otkaz
    <<1086, 1090, 1082, 1072, 1079, 1072, 1090, 1100>>,  \* otkazat'
    <<1086, 1090, 1082, 1072, 1079, 1099, 1074, 1072, 1102>>,  \* otkazyvayu
    <<1086, 1090, 1082, 1072, 1079, 1099, 1074, 1072, 1102, 33>>,  \* otkazyvayu!
    <<1086, 1090, 1082, 1072, 1079, 1099, 1074, 1072, 1102, 44>>,  \* otkazyvayu,
    <<1086, 1090, 1082, 1072, 1079, 1099, 1074, 1072, 1102, 46>>,  \* otkazyvayu.
    <<1086, 1090, 1082, 1072, 1079, 1099, 1074, 1072, 1102, 63>>,  \* otkazyvayu?
    <<1086, 1090, 1082, 1083, 1086, 1085, 1077, 1085, 1080, 1077>>,  \* otklonenie
    <<1086, 1090, 1082, 1083, 1086, 1085, 1080, 1090, 1100>>,  \* otklonit'
    <<1086, 1090, 1082, 1083, 1086, 1085, 1103, 1102>>,  \* otklonyayu
    <<1086, 1090, 1082, 1083, 1086, 1085, 1103, 1102, 33>>,  \* otklonyayu!
    <<1086, 1090, 1082, 1083, 1086, 1085, 1103, 1102, 44>>,  \* otklonyayu,
    <<1086, 1090, 1082, 1083, 1086, 1085, 1103, 1102, 46>>,  \* otklonyayu.
    <<1086, 1090, 1082, 1083, 1086, 1085, 1103, 1102, 63>>,  \* otklonyayu?
    <<1086, 1090, 1088, 1080, 1094, 1072, 1090, 1077, 1083, 1100, 1085, 1086>>,  \* otricatel'no
    <<1087, 1088, 1086, 1090, 1080, 1074>>,  \* protiv
    <<1087, 1088, 1086, 1090, 1080, 1074, 32, 1087, 1088, 1080, 1085, 1103, 1090, 1080, 1103>>,  \* protiv prinyatiya
    <<1087, 1088, 1086, 1090, 1080, 1074, 32, 1091, 1090, 1074, 1077, 1088, 1078, 1076, 1077, 1085, 1080, 1103>>,  \* protiv utverzhdeniya
    <<1087, 1088, 1086, 1090, 1080, 1074, 33>>,  \* protiv!
    <<1087, 1088, 1086, 1090, 1080, 1074, 44>>,  \* protiv,
    <<1087, 1088, 1086, 1090, 1080, 1074, 46>>,  \* protiv.
    <<1087, 1088, 1086, 1090, 1080, 1074, 46, 46, 46>>,  \* protiv...
    <<1087, 1088, 1086, 1090, 1080, 1074, 63>>   \* protiv?
  }

\* the distinct entries of abstain_keywords
abstain_keywords ==
  {
    <<1074, 1086, 1079, 1076, 1077, 1088, 1078, 1072, 1083, 1089, 1103>>,  \* vozderzhalsya
    <<1074, 1086, 1079, 1076, 1077, 1088, 1078, 1072, 1083, 1089, 1103, 33>>,  \* vozderzhalsya!
    <<1074, 1086, 1079, 1076, 1077, 1088, 1078, 1072, 1083, 1089, 1103, 44>>,  \* vozderzhalsya,
    <<1074, 1086, 1079, 1076, 1077, 1088, 1078, 1072, 1083, 1089, 1103, 46>>,  \* vozderzhalsya.
    <<1074, 1086, 1079, 1076, 1077, 1088, 1078, 1072, 1083, 1089, 1103, 63>>,  \* vozderzhalsya?
    <<1074, 1086, 1079, 1076, 1077, 1088, 1078, 1072, 1085, 1080, 1077>>,  \* vozderzhanie
    <<1074, 1086, 1079, 1076, 1077, 1088, 1078, 1072, 1085, 1080, 1077, 33>>,  \* vozderzhanie!
    <<1074, 1086, 1079, 1076, 1077, 1088, 1078, 1072, 1085, 1080, 1077, 44>>,  \* vozderzhanie,
    <<1074, 1086, 1079, 1076, 1077, 1088, 1078, 1072, 1085, 1080, 1077, 46>>,  \* vozderzhanie.
    <<1074, 1086, 1079, 1076, 1077, 1088, 1078, 1072, 1090, 1100, 1089, 1103>>,  \* vozderzhat'sya
    <<1074, 1086, 1079, 1076, 1077, 1088, 1078, 1072, 1090, 1100, 1089, 1103, 33>>,  \* vozderzhat'sya!
    <<1074, 1086, 1079, 1076, 1077, 1088, 1078, 1072, 1090, 1100, 1089, 1103, 44>>,  \* vozderzhat'sya,
    <<1074, 1086, 1079, 1076, 1077, 1088, 1078, 1072, 1090, 1100, 1089, 1103, 46>>,  \* vozderzhat'sya.
    <<1079, 1072, 1090, 1088, 1091, 1076, 1085, 1103, 1102, 1089, 1100>>,  \* zatrudnyayus'
    <<1079, 1072, 1090, 1088, 1091, 1076, 1085, 1103, 1102, 1089, 1100, 32, 1086, 1090, 1074, 1077, 1090, 1080, 1090, 1100>>,  \* zatrudnyayus' otvetit'
    <<1079, 1072, 1090, 1088, 1091, 1076, 1085, 1103, 1102, 1089, 1100, 32, 1086, 1090, 1074, 1077, 1090, 1080, 1090, 1100, 33>>,  \* zatrudnyayus' otvetit'!
    <<1079, 1072, 1090, 1088, 1091, 1076, 1085, 1103, 1102, 1089, 1100, 32, 1086, 1090, 1074, 1077, 1090, 1080, 1090, 1100, 46>>,  \* zatrudnyayus' otvetit'.
    <<1079, 1072, 1090, 1088, 1091, 1076, 1085, 1103, 1102, 1089, 1100, 33>>,  \* zatrudnyayus'!
    <<1079, 1072, 1090, 1088, 1091, 1076, 1085, 1103, 1102, 1089, 1100, 46>>,  \* zatrudnyayus'.
    <<1085, 1077, 32, 1079, 1085, 1072, 1102>>,  \* ne znayu
    <<1085, 1077, 32, 1079, 1085, 1072, 1102, 33>>,  \* ne znayu!
    <<1085, 1077, 32, 1079, 1085, 1072, 1102, 44>>,  \* ne znayu,
    <<1085, 1077, 32, 1079, 1085, 1072, 1102, 46>>,  \* ne znayu.
    <<1085, 1077, 32, 1079, 1085, 1072, 1102, 46, 46, 46>>,  \* ne znayu...
    <<1085, 1077, 32, 1079, 1085, 1072, 1102, 63>>,  \* ne znayu?
    <<1085, 1077, 32, 1084, 1086, 1075, 1091, 32, 1086, 1087, 1088, 1077, 1076, 1077, 1083, 1080, 1090, 1100, 1089, 1103>>,  \* ne mogu opredelit'sya
    <<1085, 1077, 32, 1084, 1086, 1075, 1091, 32, 1086, 1087, 1088, 1077, 1076, 1077, 1083, 1080, 1090, 1100, 1089, 1103, 33>>,  \* ne mogu opredelit'sya!
    <<1085, 1077, 32, 1084, 1086, 1075, 1091, 32, 1086, 1087, 1088, 1077, 1076, 1077, 1083, 1080, 1090, 1100, 1089, 1103, 46>>,  \* ne mogu opredelit'sya.
    <<1085, 1077, 32, 1086, 1087, 1088, 1077, 1076, 1077, 1083, 1080, 1083, 1089, 1103>>,  \* ne opredelilsya
    <<1085, 1077, 32, 1086, 1087, 1088, 1077, 1076, 1077, 1083, 1080, 1083, 1089, 1103, 33>>,  \* ne opredelilsya!
    <<1085, 1077, 32, 1086, 1087, 1088, 1077, 1076, 1077, 1083, 1080, 1083, 1089, 1103, 44>>,  \* ne opredelilsya,
    <<1085, 1077, 32, 1086, 1087, 1088, 1077, 1076, 1077, 1083, 1080, 1083, 1089, 1103, 46>>,  \* ne opredelilsya.
    <<1085, 1077, 32, 1086, 1087, 1088, 1077, 1076, 1077, 1083, 1080, 1083, 1089, 1103, 46, 46, 46>>,  \* ne opredelilsya...
    <<1085, 1077, 32, 1086, 1087, 1088, 1077, 1076, 1077, 1083, 1080, 1083, 1089, 1103, 63>>,  \* ne opredelilsya?
    <<1085, 1077, 1081, 1090, 1088, 1072, 1083, 1100, 1085, 1072, 1103, 32, 1087, 1086, 1079, 1080, 1094, 1080, 1103>>,  \* nejtral'naya poziciya
    <<1085, 1077, 1081, 1090, 1088, 1072, 1083, 1100, 1085, 1072, 1103, 32, 1087, 1086, 1079, 1080, 1094, 1080, 1103, 33>>,  \* nejtral'naya poziciya!
    <<1085, 1077, 1081, 1090, 1088, 1072, 1083, 1100, 1085, 1072, 1103, 32, 1087, 1086, 1079, 1080, 1094, 1080, 1103, 46>>,  \* nejtral'naya poziciya.
    <<1085, 1077, 1081, 1090, 1088, 1072, 1083, 1100, 1085, 1086>>,  \* nejtral'no
    <<1085, 1077, 1081, 1090, 1088, 1072, 1083, 1100, 1085, 1086, 33>>,  \* nejtral'no!
    <<1085, 1077, 1081, 1090, 1088, 1072, 1083, 1100, 1085, 1086, 44>>,  \* nejtral'no,
    <<1085, 1077, 1081, 1090, 1088, 1072, 1083, 1100, 1085, 1086, 46>>,  \* nejtral'no.
    <<1085, 1077, 1081, 1090, 1088, 1072, 1083, 1100, 1085, 1086, 63>>   \* nejtral'no?
  }

\* options_lower: blank options are skipped, the rest are lower-cased,
\* stripped of surrounding whitespace and of trailing punctuation, and kept
\* once each in order of first appearance
RECURSIVE NormalizeOptions(_, _)
NormalizeOptions(options, acc) ==
  IF options = <<>> THEN acc
  ELSE LET opt == Head(options)
           normalized == RStrip(Strip(Lower(opt), Whitespace), TrailingPunct)
           seen == {acc[i] : i \in 1..Len(acc)}
       IN  IF Strip(opt, Whitespace) # <<>> /\ normalized # <<>> /\ normalized \notin seen
           THEN NormalizeOptions(Tail(options), Append(acc, normalized))
           ELSE NormalizeOptions(Tail(options), acc)

options_lower(options) == NormalizeOptions(options, <<>>)

\* the five-way test applied to one keyword, one cleaned word and the option
KeywordHit(keyword, word_clean, option) ==
  \/ keyword = word_clean
  \/ Contains(keyword, word_clean)
  \/ Contains(word_clean, keyword)
  \/ Contains(keyword, option)
  \/ Contains(option, keyword)

\* some word of the option hits some keyword of the list
MatchesAny(option, keywords) ==
  LET option_words == Split(option)
  IN  \E w \in 1..Len(option_words) :
        \E keyword \in keywords :
          KeywordHit(keyword, Lower(Strip(option_words[w], WordPunct)), option)

\* an option is tried against the positive list first, against the negative
\* list only when it is not positive, against the abstain list only when it
\* is neither
positive_match(option) == MatchesAny(option, positive_keywords)

negative_match(option) ==
  ~positive_match(option) /\ MatchesAny(option, negative_keywords)

abstain_match(option) ==
  /\ ~positive_match(option)
  /\ ~MatchesAny(option, negative_keywords)
  /\ MatchesAny(option, abstain_keywords)

\* the rule chain without the count rule for more than three options
VotingTypeRule_NoCountRule(num_options, has_positive, has_negative, has_abstain) ==
  IF num_options = 2 /\ has_positive /\ has_negative THEN "binary"
  ELSE IF has_positive /\ has_negative /\ has_abstain THEN "approval"
  ELSE IF has_positive /\ has_negative THEN "binary"
  ELSE "choice"

\* the rule chain that closes determine_voting_type
VotingTypeRule(num_options, has_positive, has_negative, has_abstain) ==
  IF num_options = 2 /\ has_positive /\ has_negative THEN "binary"
  ELSE IF num_options = 3 /\ has_positive /\ has_negative /\ has_abstain THEN "approval"
  ELSE IF num_options > 3 THEN "choice"
  ELSE IF has_positive /\ has_negative /\ has_abstain THEN "approval"
  ELSE IF has_positive /\ has_negative THEN "binary"
  ELSE "choice"

determine_voting_type(options) ==
  LET ol == options_lower(options)
      has_positive == \E i \in 1..Len(ol) : positive_match(ol[i])
      has_negative == \E i \in 1..Len(ol) : negative_match(ol[i])
      has_abstain == \E i \in 1..Len(ol) : abstain_match(ol[i])
  IN  IF ol = <<>> THEN "choice"
      ELSE VotingTypeRule(Len(ol), has_positive, has_negative, has_abstain)

(***************************************************************************)
(* Text clean-up, parsing and the options column                           *)
(***************************************************************************)

RemoveChars(s, chars) == SelectSeq(s, LAMBDA c : c \notin chars)

RECURSIVE JoinWith(_, _)
JoinWith(parts, sep) ==
  IF parts = <<>> THEN <<>>
  ELSE IF Len(parts) = 1 THEN parts[1]
  ELSE parts[1] \o sep \o JoinWith(Tail(parts), sep)

\* re.sub(r'\s+', ' ', s.strip())
CollapseWhitespace(s) == JoinWith(Split(s), <<32>>)

ControlChars == (0..8) \cup {11, 12} \cup (14..31) \cup {127}

sanitize(text, max_len) ==
  LET t == CollapseWhitespace(RemoveChars(text, ControlChars))
  IN  IF Len(t) > max_len THEN SubSeq(t, 1, max_len) ELSE t

\* the markdown characters * ` _ are dropped, whitespace is collapsed
clean_poll_option(option) ==
  IF option = <<>> THEN <<>>
  ELSE CollapseWhitespace(RemoveChars(option, {42, 96, 95}))

\* "|".join(options), the form in which polls.options is stored
JoinBar(options) == JoinWith(options, <<124>>)

\* options_str.split('|'), the form in which polls.options is read back
\* str.split(sep): the stretches between the separators, empty ones included
SplitOn(s, sep) ==
  LET at == {i \in 1..Len(s) : s[i] = sep}
      n == Cardinality(at)
  IN  [k \in 1..(n + 1) |->
         SubSeq(s, IF k = 1 THEN 1 ELSE NthLeast(at, k - 1) + 1,
                   IF k = n + 1 THEN Len(s) ELSE NthLeast(at, k) - 1)]

SplitBar(options_str) == SplitOn(options_str, 124)

RECURSIVE DigitsValue(_, _)
DigitsValue(s, acc) ==
  IF s = <<>> THEN acc ELSE DigitsValue(Tail(s), 10 * acc + (Head(s) - 48))

\* int(text): <<n>> for an optional sign followed by decimal digits,
\* <<>> where Python raises ValueError
ParseInt(text) ==
  LET signed == text # <<>> /\ Head(text) \in {43, 45}
      digits == IF signed THEN Tail(text) ELSE text
  IN  IF digits # <<>> /\ \A i \in 1..Len(digits) : digits[i] \in 48..57
      THEN IF signed /\ Head(text) = 45
           THEN <<0 - DigitsValue(digits, 0)>>
           ELSE <<DigitsValue(digits, 0)>>
      ELSE <<>>

MAX_POLL_QUESTION == 300
MAX_POLL_OPTION == 100

\* config "max_poll_options"
max_poll_options == 10

\* every check passes whatever the question and the options are
validate_poll_data_Always(question, options) == TRUE

validate_poll_data(question, options) ==
  /\ Strip(question, Whitespace) # <<>>
  /\ Len(question) <= MAX_POLL_QUESTION
  /\ Len(options) >= 2
  /\ Len(options) <= max_poll_options
  /\ \A i \in 1..Len(options) :
       Strip(options[i], Whitespace) # <<>> /\ Len(options[i]) <= MAX_POLL_OPTION

(***************************************************************************)
(* Decision engine                                                         *)
(*                                                                         *)
(* P is the polls table (poll_id -> row), V the poll_votes table (a set of *)
(* rows), S the user_settings table.  A decision number is <<>> for NULL   *)
(* and <<n>> for the integer n.                                            *)
(***************************************************************************)

VotesOf(V, poll_id) == {r \in V : r.poll_id = poll_id}

VoteCount(V, poll_id, option_id) ==
  Cardinality({r \in VotesOf(V, poll_id) : r.option_id = option_id})

\* COUNT(DISTINCT user_id)
DistinctVoters(V, poll_id) ==
  Cardinality({r.user_id : r \in VotesOf(V, poll_id)})

\* the option ids that can head the rows of
\* GROUP BY option_id ORDER BY vote_count DESC: the order of options with
\* equal counts is not fixed by the query
TopOptions(V, poll_id) ==
  LET voted == {r.option_id : r \in VotesOf(V, poll_id)}
  IN  {o \in voted :
         \A o2 \in voted : VoteCount(V, poll_id, o) >= VoteCount(V, poll_id, o2)}

\* the keyword list local to check_decision_status
status_positive_keywords ==
  {
    <<1079, 1072>>,                                                  \* za
    <<1076, 1072>>,                                                  \* da
    <<1086, 1076, 1086, 1073, 1088, 1080, 1090, 1100>>,              \* odobrit'
    <<1089, 1086, 1075, 1083, 1072, 1089, 1077, 1085>>,              \* soglasen
    <<1087, 1086, 1076, 1076, 1077, 1088, 1078, 1080, 1074, 1072, 1102>>,  \* podderzhivayu
    <<1087, 1088, 1080, 1085, 1103, 1090, 1100>>,                    \* prinyat'
    <<1091, 1090, 1074, 1077, 1088, 1076, 1080, 1090, 1100>>         \* utverdit'
  }

is_positive_option(max_option_text) ==
  \E keyword \in status_positive_keywords : Contains(keyword, Lower(max_option_text))

base_count_TotalVoters(max_participants, total_voters) == total_voters

base_count(max_participants, total_voters) ==
  IF max_participants > 0 THEN max_participants ELSE total_voters

\* (max_votes / base_count) * 100 >= threshold - 0.5, in integers
MeetsThresholdWithTolerance(max_votes, base, threshold) ==
  200 * max_votes >= (2 * threshold - 1) * base

MeetsThreshold_Tolerant(max_votes, base, threshold) ==
  200 * max_votes >= (2 * threshold - 1) * base

\* (max_votes / base_count) * 100 >= threshold, in integers
MeetsThreshold(max_votes, base, threshold) ==
  100 * max_votes >= threshold * base

\* the status given when the acceptance test fails
ShortfallStatus(poll_status, total_voters) ==
  IF poll_status = "closed" THEN "rejected"
  ELSE IF total_voters >= 3 THEN "rejected"
  ELSE "pending"

\* check_decision_status(poll_id)["status"], with max_option_id the option
\* that heads the grouped vote counts
check_decision_status(P, V, poll_id, max_option_id) ==
  IF poll_id \notin DOMAIN P THEN "unknown"
  ELSE
    LET poll == P[poll_id]
        options == SplitBar(poll.options)
        max_votes == VoteCount(V, poll_id, max_option_id)
        base == base_count(poll.max_participants, poll.total_voters)
    IN  IF poll.total_voters = 0 THEN "pending"
        ELSE IF VotesOf(V, poll_id) = {} THEN "pending"
        ELSE IF max_option_id >= Len(options) THEN "error"
        ELSE
          LET max_option_text == options[max_option_id + 1]
          IN  IF poll.voting_type = "approval"
              THEN IF is_positive_option(max_option_text)
                   THEN IF MeetsThresholdWithTolerance(max_votes, base, poll.threshold)
                        THEN "accepted"
                        ELSE ShortfallStatus(poll.status, poll.total_voters)
                   ELSE ShortfallStatus(poll.status, poll.total_voters)
              ELSE IF poll.voting_type = "binary"
              THEN IF is_positive_option(max_option_text)
                      /\ MeetsThreshold(max_votes, base, poll.threshold)
                   THEN "accepted"
                   ELSE ShortfallStatus(poll.status, poll.total_voters)
              ELSE IF MeetsThresholdWithTolerance(max_votes, base, poll.threshold)
                   THEN "accepted"
                   ELSE ShortfallStatus(poll.status, poll.total_voters)

\* SELECT MAX(decision_number) ... ; a maximum of 0 counts as none
get_next_decision_number(P) ==
  LET numbers == {P[p].decision_number[1] : p \in {q \in DOMAIN P : P[q].decision_number # <<>>}}
  IN  IF numbers = {} THEN 1
      ELSE LET max == CHOOSE n \in numbers : \A k \in numbers : k <= n
           IN  IF max # 0 THEN max + 1 ELSE 1

assign_decision_number(P, poll_id) ==
  [P EXCEPT ![poll_id].decision_number = <<get_next_decision_number(P)>>]

\* user_settings.get(opt, config.get(opt, True)) for the two display options
get_opt(S, for_user_id, opt) ==
  IF for_user_id \in DOMAIN S /\ S[for_user_id][opt] # "unset"
  THEN S[for_user_id][opt] = "on"
  ELSE TRUE

\* the writes of format_poll_message: the polls table after the call
format_poll_message(P, V, S, poll_id, show_results, for_user_id, max_option_id) ==
  IF poll_id \notin DOMAIN P THEN P
  ELSE
    LET poll == P[poll_id]
        total_votes == Cardinality(VotesOf(V, poll_id))
        decision == check_decision_status(P, V, poll_id, max_option_id)
        unnumbered == poll.decision_number = <<>> \/ poll.decision_number = <<0>>
        shown ==
          \/ decision = "accepted"
          \/ decision = "rejected" /\ (total_votes >= 3 \/ poll.status = "closed")
    IN  IF /\ show_results
           /\ total_votes > 0
           /\ get_opt(S, for_user_id, "show_decision_status")
           /\ shown
           /\ unnumbered
        THEN [assign_decision_number(P, poll_id) EXCEPT ![poll_id].decision_status = decision]
        ELSE P

\* the candidates for max_option_id at a call of format_poll_message
HeadOptions(V, poll_id) ==
  IF TopOptions(V, poll_id) = {} THEN {0} ELSE TopOptions(V, poll_id)

(***************************************************************************)
(* Template variables                                                      *)
(***************************************************************************)

\* str.replace(old, new): every non-overlapping occurrence, left to right
RECURSIVE Replace(_, _, _)
Replace(s, old, new) ==
  IF old = <<>> \/ Len(s) < Len(old) THEN s
  ELSE IF SubSeq(s, 1, Len(old)) = old
       THEN new \o Replace(SubSeq(s, Len(old) + 1, Len(s)), old, new)
       ELSE <<Head(s)>> \o Replace(Tail(s), old, new)

\* the characters the variable pattern admits between the braces:
\* word characters, whitespace and  @ # - . , : ; / ! ? & % + = ' " ( ) [ ]
VariableChars ==
  (48..57) \cup (65..90) \cup (97..122) \cup {95} \cup (1040..1103)
    \cup {1025, 1105} \cup Whitespace
    \cup {64, 35, 45, 46, 44, 58, 59, 47, 33, 63, 38, 37, 43, 61, 39, 34,
          40, 41, 91, 93}

\* the length of the variable name that opens s after a brace, 0 if none
VariableNameLength(s) ==
  LET ends == {n \in 1..30 :
                 /\ n + 2 <= Len(s)
                 /\ s[n + 2] = 125
                 /\ \A i \in 2..(n + 1) : s[i] \in VariableChars}
  IN  IF s # <<>> /\ Head(s) = 123 /\ ends # {}
      THEN CHOOSE n \in ends : \A k \in ends : n <= k
      ELSE 0

\* re.findall of the variable pattern: the names, left to right, a match
\* being skipped over before the next is looked for
RECURSIVE FindVariables(_)
FindVariables(s) ==
  IF s = <<>> THEN <<>>
  ELSE LET n == VariableNameLength(s)
       IN  IF n > 0
           THEN <<SubSeq(s, 2, n + 1)>> \o FindVariables(SubSeq(s, n + 3, Len(s)))
           ELSE FindVariables(Tail(s))

\* for var in remaining_vars: result = result.replace("{var}", "[var]")
RECURSIVE BracketEach(_, _)
BracketEach(result, names) ==
  IF names = <<>> THEN result
  ELSE BracketEach(Replace(result, <<123>> \o Head(names) \o <<125>>,
                           <<91>> \o Head(names) \o <<93>>),
                   Tail(names))

\* every {name} found in the text becomes [name]
BracketRemaining(s) == BracketEach(s, FindVariables(s))

\* the order of Python strings: by code point, a prefix first
RECURSIVE StrLess(_, _)
StrLess(a, b) ==
  IF b = <<>> THEN FALSE
  ELSE IF a = <<>> THEN TRUE
  ELSE IF Head(a) # Head(b) THEN Head(a) < Head(b)
  ELSE StrLess(Tail(a), Tail(b))

RECURSIVE Sorted(_)
Sorted(S) ==
  IF S = {} THEN <<>>
  ELSE LET least == CHOOSE a \in S : \A b \in S \ {a} : StrLess(a, b)
       IN  <<least>> \o Sorted(S \ {least})

\* sorted(list(set(re.findall(pattern, text))))
extract_variables(text) ==
  LET found == FindVariables(text)
  IN  Sorted({found[i] : i \in 1..Len(found)})

\* values is the dict as a sequence of <<name, value>> in insertion order
RECURSIVE ReplaceValues(_, _)
ReplaceValues(text, values) ==
  IF values = <<>> THEN text
  ELSE ReplaceValues(Replace(text, <<123>> \o values[1][1] \o <<125>>, values[1][2]),
                     Tail(values))

substitute_variables(text, values) == BracketRemaining(ReplaceValues(text, values))

\* variables_values[var_name] = value
SetValue(values, var_name, value) ==
  IF \E i \in 1..Len(values) : values[i][1] = var_name
  THEN [i \in 1..Len(values) |->
          IF values[i][1] = var_name THEN <<var_name, value>> ELSE values[i]]
  ELSE Append(values, <<var_name, value>>)

\* [clean(sanitize(substitute(opt.strip()))) for opt in options.split('|') if opt.strip()]
RECURSIVE FinalOptions(_, _)
FinalOptions(parts, values) ==
  IF parts = <<>> THEN <<>>
  ELSE LET opt == Strip(Head(parts), Whitespace)
       IN  IF opt = <<>> THEN FinalOptions(Tail(parts), values)
           ELSE <<clean_poll_option(sanitize(substitute_variables(opt, values), 100))>>
                  \o FinalOptions(Tail(parts), values)

(***************************************************************************)
(* Literals used as inputs                                                 *)
(***************************************************************************)

T_Da == <<1044, 1072>>                                  \* Da
T_Net == <<1053, 1077, 1090>>                           \* Net
T_Za == <<1047, 1072>>                                  \* Za
T_Protiv == <<1055, 1088, 1086, 1090, 1080, 1074>>      \* Protiv
T_Vozderzhalsya ==
  <<1042, 1086, 1079, 1076, 1077, 1088, 1078, 1072, 1083, 1089, 1103>>  \* Vozderzhalsya
T_A == <<65>>
T_B == <<66>>
T_C == <<67>>
T_D == <<68>>
T_za_dot == <<1079, 1072, 46>>                          \* za.
T_blank == <<32, 32>>
T_Question == <<81, 63>>                                \* Q?
T_TemplateQuestion == <<81, 32, 123, 120, 125, 63>>     \* Q {x}?
T_x == <<120>>                                          \* x
T_Net_Da == <<1053, 1077, 1090, 44, 32, 1044, 1072>>    \* Net, Da
T_0 == <<48>>
T_1 == <<49>>
T_2 == <<50>>
T_30 == <<51, 48>>
T_50 == <<53, 48>>
T_67 == <<54, 55>>

T_minus_1 == <<45, 49>>
T_101 == <<49, 48, 49>>
T_a == <<97>>
T_b == <<98>>
T_TwoVariables == <<123, 98, 125, 32, 123, 97, 125>>                       \* {b} {a}
T_ref_b == <<123, 98, 125>>                                                 \* {b}
T_Odobryayu == <<1054, 1076, 1086, 1073, 1088, 1103, 1102>>           \* Odobryayu
T_Otklonyayu == <<1054, 1090, 1082, 1083, 1086, 1085, 1103, 1102>>    \* Otklonyayu
T_ref_x == <<123, 120, 125>>                                                 \* {x}
T_ref_y == <<123, 121, 125>>                                                 \* {y}
(***************************************************************************)
(* State                                                                   *)
(***************************************************************************)

VARIABLES
  users,              \* users table: user_id -> permissions
  polls,              \* polls table: poll_id -> row
  poll_votes,         \* poll_votes table: set of rows [poll_id, user_id, option_id]
  keyboards,          \* poll_id -> widest row of vote buttons sent for the poll
  templates,          \* templates table: id -> row
  template_sessions,  \* template_sessions table: user_id -> row
  user_states,        \* user_states table: user_id -> [state, data]
  user_settings,      \* user_settings table: user_id -> settings
  issued,             \* number of poll ids drawn from uuid4 so far
  dvt_in,             \* the option list handed to determine_voting_type
  dvt_out,            \* its return value, "unset" before the call
  call_in,            \* the arguments handed to another function called on its own
  call_out,           \* <<its result>>, <<>> before the call
  suspended,          \* user_id -> the await a vote callback of the user is suspended at
  poll_age,           \* poll_id -> seconds since polls.created_date
  session_age,        \* user_id -> seconds since template_sessions.created_date
  state_age,          \* user_id -> seconds since user_states.updated_date of a wizard state
  requests,           \* RateLimiter.requests: user_id -> seconds since each counted call
  last_cleanup,       \* seconds since RateLimiter.last_cleanup
  crowd,              \* further keys of RateLimiter.requests, of users outside Users
  inbound,            \* user_id -> seconds since each update received from the user
  granted             \* user_id -> seconds since each call that is_allowed granted

dbvars ==
  <<users, polls, poll_votes, keyboards, templates, template_sessions,
    user_states, user_settings, issued>>

typevars == <<dvt_in, dvt_out, call_in, call_out, suspended>>

limitervars == <<requests, last_cleanup, crowd>>
logvars == <<inbound, granted>>
clockvars == <<poll_age, session_age, state_age, requests, last_cleanup, crowd, inbound, granted>>

vars ==
  <<users, polls, poll_votes, keyboards, templates, template_sessions,
    user_states, user_settings, issued, dvt_in, dvt_out, call_in, call_out,
    suspended,
    poll_age, session_age, state_age, requests, last_cleanup, crowd, inbound,
    granted>>

Users == {1, 2, 3}

\* the keys a state payload can carry; "", <<>>, 0 and FALSE stand for a
\* missing key.  options is the list kept by the poll wizard, options_str
\* the templates.options string kept by the template wizard
NoData ==
  [type |-> "", question |-> <<>>, options |-> <<>>, options_str |-> <<>>,
   poll_id |-> 0, template_id |-> 0, values |-> <<>>, threshold |-> 0,
   max_participants |-> 0, is_template |-> FALSE]

IdleState == [state |-> "idle", data |-> NoData]

\* settings of a user who has no row, or whose row lacks the key
NoSettings ==
  [show_decision_status |-> "unset", show_decision_numbers |-> "unset",
   last_decision_number |-> <<>>]

get_user_settings(S, user_id) ==
  IF user_id \in DOMAIN S THEN S[user_id] ELSE NoSettings

\* INSERT OR REPLACE INTO user_settings
set_user_settings(S, user_id, settings) ==
  [u \in DOMAIN S \cup {user_id} |-> IF u = user_id THEN settings ELSE S[u]]

get_permissions(U, user_id) ==
  IF user_id \in DOMAIN U THEN U[user_id] ELSE "none"

\* INSERT OR REPLACE with the default permissions, whatever the row holds
add_user_AsGiven(U, user_id) ==
  [u \in DOMAIN U \cup {user_id} |-> IF u = user_id THEN "use" ELSE U[u]]

\* a new user gets "use"; an existing row keeps its permissions
add_user(U, user_id) ==
  IF user_id \in DOMAIN U /\ U[user_id] \in {"use", "create", "admin"} THEN U
  ELSE [u \in DOMAIN U \cup {user_id} |-> IF u = user_id THEN "use" ELSE U[u]]

set_user_state(US, user_id, state, data) ==
  [US EXCEPT ![user_id] = [state |-> state, data |-> data]]

clear_user_state(US, user_id) == [US EXCEPT ![user_id] = IdleState]

\* the row INSERT INTO polls writes; the columns it leaves out take their
\* defaults
NewPoll(question, options, creator_id, threshold, voting_type, max_participants, decision_number) ==
  [question |-> question, options |-> JoinBar(options), creator_id |-> creator_id,
   status |-> "active", threshold |-> threshold, total_voters |-> 0,
   max_participants |-> max_participants, decision_number |-> decision_number,
   decision_status |-> "pending", voting_type |-> voting_type, recent |-> TRUE]

InsertRow(T, id, row) ==
  [k \in DOMAIN T \cup {id} |-> IF k = id THEN row ELSE T[k]]

DeleteRow(T, id) == [k \in DOMAIN T \ {id} |-> T[k]]

Max2(a, b) == IF a >= b THEN a ELSE b

\* the vote buttons a rendering of an open poll puts on screen
RenderKeyboard(K, P, poll_id) ==
  IF poll_id \in DOMAIN P /\ P[poll_id].status # "closed"
  THEN [k \in DOMAIN K \cup {poll_id} |->
          IF k = poll_id
          THEN Max2(IF k \in DOMAIN K THEN K[k] ELSE 0, Len(SplitBar(P[poll_id].options)))
          ELSE K[k]]
  ELSE K

(***************************************************************************)
(* Callback handlers.  callback_handler registers the caller with add_user *)
(* before it dispatches; message delivery is taken to succeed.             *)
(***************************************************************************)

\* a plain INSERT, which leaves the voter's earlier row in place
InsertVote(V, poll_id, user_id, option_id) ==
  V \cup {[poll_id |-> poll_id, user_id |-> user_id, option_id |-> option_id]}

\* INSERT OR REPLACE under UNIQUE(poll_id, user_id)
InsertOrReplaceVote(V, poll_id, user_id, option_id) ==
  {r \in V : ~(r.poll_id = poll_id /\ r.user_id = user_id)}
    \cup {[poll_id |-> poll_id, user_id |-> user_id, option_id |-> option_id]}

\* the participant cap is never enforced
AutoClose_Never(P, poll_id) == P

\* the poll closes when the cap is set and reached
AutoClose(P, poll_id) ==
  IF P[poll_id].max_participants > 0
     /\ P[poll_id].total_voters >= P[poll_id].max_participants
  THEN [P EXCEPT ![poll_id].status = "closed"]
  ELSE P

\* UPDATE polls SET total_voters = COUNT(DISTINCT user_id)
UpdateTotalVoters(P, V, poll_id) ==
  [P EXCEPT ![poll_id].total_voters = DistinctVoters(V, poll_id)]

\* what get_chat_member can come back with; "raises" is any failure of the
\* call
ChatMemberOutcomes == {"member", "left", "kicked", "raises"}

\* is_user_in_chat: a failed probe counts as membership
is_user_in_chat(chat_member) == chat_member \notin {"left", "kicked"}

\* callback vote:<poll_id>:<option_id>.  callback_handler has given the
\* caller a users row with at least "use" by now, so the membership probe for
\* callers without permissions is not reached.
vote_handler(user_id, poll_id, option_id) ==
  /\ users' = add_user(users, user_id)
  /\ IF poll_id \notin DOMAIN polls
     THEN UNCHANGED <<polls, poll_votes, keyboards>>
     ELSE IF polls[poll_id].status # "active"
     THEN /\ \E o \in HeadOptions(poll_votes, poll_id) :
               polls' = format_poll_message(polls, poll_votes, user_settings,
                                            poll_id, TRUE, user_id, o)
          /\ UNCHANGED <<poll_votes, keyboards>>
     ELSE \E chat_member \in
               IF get_permissions(users', user_id) \in {"use", "create", "admin"}
               THEN {"member"} ELSE ChatMemberOutcomes :
            IF /\ get_permissions(users', user_id) \notin {"use", "create", "admin"}
               /\ ~is_user_in_chat(chat_member)
            THEN UNCHANGED <<polls, poll_votes, keyboards>>
            ELSE LET V1 == InsertOrReplaceVote(poll_votes, poll_id, user_id, option_id)
                     P1 == AutoClose(UpdateTotalVoters(polls, V1, poll_id), poll_id)
                 IN  /\ poll_votes' = V1
                     /\ \E o \in HeadOptions(V1, poll_id) :
                          polls' = format_poll_message(P1, V1, user_settings,
                                                       poll_id, TRUE, user_id, o)
                     /\ keyboards' = RenderKeyboard(keyboards, P1, poll_id)
  /\ UNCHANGED <<templates, template_sessions, user_states, user_settings, issued>>

\* the alert close_poll_handler ends with
close_poll_answer_NoStatusCheck(U, P, user_id, poll_id) ==
  IF poll_id \notin DOMAIN P THEN "not_found"
  ELSE IF user_id # P[poll_id].creator_id /\ get_permissions(U, user_id) # "admin"
  THEN "no_rights"
  ELSE "closed"

close_poll_answer(U, P, user_id, poll_id) ==
  IF poll_id \notin DOMAIN P THEN "not_found"
  ELSE IF user_id # P[poll_id].creator_id /\ get_permissions(U, user_id) # "admin"
  THEN "no_rights"
  ELSE IF P[poll_id].status # "active" THEN "already_closed"
  ELSE "closed"

close_poll_handler_AnyUser(user_id, poll_id) ==
  /\ users' = add_user(users, user_id)
  /\ IF poll_id \notin DOMAIN polls
     THEN UNCHANGED polls
     ELSE IF polls[poll_id].status # "active"
     THEN UNCHANGED polls
     ELSE LET P1 == [polls EXCEPT ![poll_id].status = "closed"]
          IN  \E o \in HeadOptions(poll_votes, poll_id) :
                polls' = format_poll_message(P1, poll_votes, user_settings,
                                             poll_id, TRUE, user_id, o)
  /\ UNCHANGED <<poll_votes, keyboards, templates, template_sessions,
                 user_states, user_settings, issued>>

\* the button opens a closed poll again
close_poll_handler_Toggle(user_id, poll_id) ==
  /\ users' = add_user(users, user_id)
  /\ IF poll_id \notin DOMAIN polls
     THEN UNCHANGED polls
     ELSE polls' = [polls EXCEPT ![poll_id].status =
                      IF @ = "active" THEN "closed" ELSE "active"]
  /\ UNCHANGED <<poll_votes, keyboards, templates, template_sessions,
                 user_states, user_settings, issued>>

\* callback close_poll:<poll_id>
close_poll_handler(user_id, poll_id) ==
  /\ users' = add_user(users, user_id)
  /\ IF poll_id \notin DOMAIN polls
     THEN UNCHANGED polls
     ELSE IF user_id # polls[poll_id].creator_id
             /\ get_permissions(users', user_id) # "admin"
     THEN UNCHANGED polls
     ELSE IF polls[poll_id].status # "active"
     THEN UNCHANGED polls
     ELSE LET P1 == [polls EXCEPT ![poll_id].status = "closed"]
          IN  \E o \in HeadOptions(poll_votes, poll_id) :
                polls' = format_poll_message(P1, poll_votes, user_settings,
                                             poll_id, TRUE, user_id, o)
  /\ UNCHANGED <<poll_votes, keyboards, templates, template_sessions,
                 user_states, user_settings, issued>>

\* callbacks show_poll:<poll_id> and show_closed_poll:<poll_id>
show_single_poll(user_id, poll_id) ==
  /\ users' = add_user(users, user_id)
  /\ IF poll_id \notin DOMAIN polls
     THEN UNCHANGED <<polls, keyboards>>
     ELSE /\ \E o \in HeadOptions(poll_votes, poll_id) :
               polls' = format_poll_message(polls, poll_votes, user_settings,
                                            poll_id, TRUE, user_id, o)
          /\ keyboards' = RenderKeyboard(keyboards, polls, poll_id)
  /\ UNCHANGED <<poll_votes, templates, template_sessions, user_states,
                 user_settings, issued>>

\* callback confirm_delete_poll:<poll_id>: the polls row goes, its
\* poll_votes rows stay
confirm_delete_poll_handler(user_id, poll_id) ==
  /\ users' = add_user(users, user_id)
  /\ IF poll_id \notin DOMAIN polls
     THEN UNCHANGED <<polls, keyboards>>
     ELSE IF user_id # polls[poll_id].creator_id
             /\ get_permissions(users', user_id) # "admin"
     THEN UNCHANGED <<polls, keyboards>>
     ELSE /\ polls' = DeleteRow(polls, poll_id)
          /\ keyboards' = DeleteRow(keyboards, poll_id)
  /\ UNCHANGED <<poll_votes, templates, template_sessions, user_states,
                 user_settings, issued>>

\* the users row alone is deleted
admin_confirm_delete_RowOnly(user_id, target_user_id) ==
  /\ IF get_permissions(add_user(users, user_id), user_id) # "admin"
     THEN users' = add_user(users, user_id)
     ELSE users' = DeleteRow(add_user(users, user_id), target_user_id)
  /\ UNCHANGED <<polls, poll_votes, keyboards, templates, template_sessions,
                 user_states, user_settings, issued>>

\* callback admin_confirm_delete:<target_user_id>: the target's users row,
\* votes, conversation state and template session go; polls.total_voters is
\* left as it was
admin_confirm_delete(user_id, target_user_id) ==
  /\ IF get_permissions(add_user(users, user_id), user_id) # "admin"
     THEN /\ users' = add_user(users, user_id)
          /\ UNCHANGED <<poll_votes, user_states, template_sessions>>
     ELSE /\ users' = DeleteRow(add_user(users, user_id), target_user_id)
          /\ poll_votes' = {r \in poll_votes : r.user_id # target_user_id}
          /\ user_states' = clear_user_state(user_states, target_user_id)
          /\ template_sessions' = DeleteRow(template_sessions, target_user_id)
  /\ UNCHANGED <<polls, keyboards, templates, user_settings, issued>>

\* callback edit_poll_options:<poll_id>
start_edit_poll_options(user_id, poll_id) ==
  /\ users' = add_user(users, user_id)
  /\ IF poll_id \notin DOMAIN polls
     THEN UNCHANGED user_states
     ELSE IF user_id # polls[poll_id].creator_id
             /\ get_permissions(users', user_id) # "admin"
     THEN UNCHANGED user_states
     ELSE IF polls[poll_id].status # "active"
     THEN UNCHANGED user_states
     ELSE user_states' =
            set_user_state(user_states, user_id, "waiting_poll_options",
                           [NoData EXCEPT !.type = "edit_options", !.poll_id = poll_id])
  /\ UNCHANGED <<polls, poll_votes, keyboards, templates, template_sessions,
                 user_settings, issued>>

\* callback create_simple
create_simple(user_id) ==
  /\ users' = add_user(users, user_id)
  /\ IF get_permissions(users', user_id) \in {"create", "admin"}
     THEN user_states' =
            set_user_state(user_states, user_id, "waiting_poll_question",
                           [NoData EXCEPT !.type = "simple"])
     ELSE UNCHANGED user_states
  /\ UNCHANGED <<polls, poll_votes, keyboards, templates, template_sessions,
                 user_settings, issued>>

\* finalize_poll_creation: a valid draft moves on to the participant cap
finalize_poll_creation(US, user_id, question, options) ==
  IF validate_poll_data(question, options)
  THEN set_user_state(US, user_id, "waiting_max_participants",
                      [NoData EXCEPT !.question = question, !.options = options])
  ELSE clear_user_state(US, user_id)

\* callback finish_poll_creation
finish_poll_creation(user_id) ==
  /\ users' = add_user(users, user_id)
  /\ user_states' =
       finalize_poll_creation(user_states, user_id,
                              user_states[user_id].data.question,
                              user_states[user_id].data.options)
  /\ UNCHANGED <<polls, poll_votes, keyboards, templates, template_sessions,
                 user_settings, issued>>

\* callback toggle_setting:<opt> for the two decision display options
toggle_setting(user_id, opt) ==
  /\ users' = add_user(users, user_id)
  /\ LET settings == get_user_settings(user_settings, user_id)
         current == get_opt(user_settings, user_id, opt)
     IN  user_settings' =
           set_user_settings(user_settings, user_id,
                             [settings EXCEPT ![opt] = IF current THEN "off" ELSE "on"])
  /\ UNCHANGED <<polls, poll_votes, keyboards, templates, template_sessions,
                 user_states, issued>>

\* finalize_template_poll: the tables user_states and template_sessions
\* after the call, as a pair
finalize_template_poll(US, TS, user_id) ==
  IF user_id \notin DOMAIN TS THEN <<US, TS>>
  ELSE
    LET template_id == TS[user_id].template_name
        values == TS[user_id].variables_values
    IN  IF template_id \notin DOMAIN templates
        THEN <<US, DeleteRow(TS, user_id)>>
        ELSE
          LET t == templates[template_id]
              payload == [NoData EXCEPT !.template_id = template_id,
                                        !.question = t.question,
                                        !.options_str = t.options,
                                        !.values = values,
                                        !.threshold = t.threshold]
          IN  IF get_opt(user_settings, user_id, "show_decision_numbers")
              THEN <<set_user_state(US, user_id, "waiting_decision_number",
                                    [payload EXCEPT !.max_participants = t.max_participants]),
                     TS>>
              ELSE <<set_user_state(US, user_id, "waiting_max_participants",
                                    [payload EXCEPT !.is_template = TRUE,
                                                    !.threshold =
                                                      IF t.threshold # 0 THEN t.threshold ELSE 50]),
                     DeleteRow(TS, user_id)>>

\* ask_next_variable: finalizes once every variable has a value
ask_next_variable(US, TS, user_id) ==
  IF user_id \notin DOMAIN TS THEN <<US, TS>>
  ELSE IF TS[user_id].current_variable >= Len(TS[user_id].variables_needed)
  THEN finalize_template_poll(US, TS, user_id)
  ELSE <<US, TS>>

\* the user's earlier sessions are deleted, the new one is inserted
\* edit_tpl_threshold:<template_id>: the owner or an admin is asked for the
\* new threshold
edit_tpl_threshold(user_id, template_id) ==
  /\ users' = add_user(users, user_id)
  /\ IF template_id \notin DOMAIN templates
     THEN UNCHANGED user_states
     ELSE IF templates[template_id].created_by = user_id
             \/ get_permissions(users', user_id) = "admin"
     THEN user_states' =
            set_user_state(user_states, user_id, "waiting_edit_template_threshold",
                           [NoData EXCEPT !.template_id = template_id])
     ELSE UNCHANGED user_states
  /\ UNCHANGED <<polls, poll_votes, keyboards, templates, template_sessions,
                 user_settings, issued>>

\* callback delete_tpl:<template_id>: the owner or an admin is shown the
\* confirmation button, nothing is written
delete_tpl(user_id, template_id) ==
  /\ users' = add_user(users, user_id)
  /\ UNCHANGED <<polls, poll_votes, keyboards, templates, template_sessions,
                 user_states, user_settings, issued>>

\* callback confirm_delete_template:<template_id>
confirm_delete_template(user_id, template_id) ==
  /\ users' = add_user(users, user_id)
  /\ templates' = DeleteRow(templates, template_id)
  /\ UNCHANGED <<polls, poll_votes, keyboards, template_sessions, user_states,
                 user_settings, issued>>

create_template_session(TS, user_id, template_id, variables) ==
  InsertRow(DeleteRow(TS, user_id), user_id,
            [template_name |-> template_id, variables_needed |-> variables,
             variables_values |-> <<>>, current_variable |-> 0])

\* callback continue_tpl:<template_id>
continue_tpl(user_id, template_id) ==
  /\ users' = add_user(users, user_id)
  /\ LET variables == IF template_id \in DOMAIN templates
                      THEN templates[template_id].variables ELSE <<>>
         TS1 == create_template_session(template_sessions, user_id, template_id, variables)
         after == ask_next_variable(user_states, TS1, user_id)
     IN  /\ user_states' = after[1]
         /\ template_sessions' = after[2]
  /\ UNCHANGED <<polls, poll_votes, keyboards, templates, user_settings, issued>>

\* create_poll_from_template_with_max_participants: TRUE when the poll row
\* is inserted
template_poll_accepted(U, user_id, question, options_str, values) ==
  /\ get_permissions(U, user_id) \in {"create", "admin"}
  /\ validate_poll_data(substitute_variables(question, values),
                        FinalOptions(SplitBar(options_str), values))

\* the row it inserts; decision_number is <<>> when none is passed
template_poll_row(user_id, question, options_str, values, threshold, max_participants, decision_number) ==
  LET final_options == FinalOptions(SplitBar(options_str), values)
  IN  NewPoll(substitute_variables(question, values), final_options, user_id,
              threshold, determine_voting_type(final_options), max_participants,
              decision_number)

\* callback enter_decision_number: the payload is carried over as it is
enter_decision_number(user_id) ==
  /\ users' = add_user(users, user_id)
  /\ user_states' =
       set_user_state(user_states, user_id, "waiting_decision_number_input",
                      user_states[user_id].data)
  /\ UNCHANGED <<polls, poll_votes, keyboards, templates, template_sessions,
                 user_settings, issued>>

\* callback next_decision_number: the user's own counter is advanced and
\* saved first; a payload without a template raises KeyError after that.
\* The state is left as it was.
next_decision_number(user_id) ==
  /\ users' = add_user(users, user_id)
  /\ LET data == user_states[user_id].data
         settings == get_user_settings(user_settings, user_id)
         last_num == IF settings.last_decision_number = <<>>
                     THEN 0 ELSE settings.last_decision_number[1]
         next_num == IF last_num # 0 THEN last_num + 1 ELSE 1
     IN  /\ user_settings' =
               set_user_settings(user_settings, user_id,
                                 [settings EXCEPT !.last_decision_number = <<next_num>>])
         /\ IF data.template_id # 0
               /\ template_poll_accepted(users', user_id, data.question,
                                         data.options_str, data.values)
            THEN /\ polls' =
                      InsertRow(polls, issued + 1,
                                template_poll_row(user_id, data.question, data.options_str,
                                                  data.values, data.threshold,
                                                  data.max_participants, <<next_num>>))
                 /\ issued' = issued + 1
                 /\ keyboards' = RenderKeyboard(keyboards, polls', issued + 1)
            ELSE UNCHANGED <<polls, issued, keyboards>>
  /\ UNCHANGED <<poll_votes, templates, template_sessions, user_states>>

(***************************************************************************)
(* Text handler                                                            *)
(***************************************************************************)

CleanAll(options) == [i \in 1..Len(options) |-> clean_poll_option(options[i])]

\* [clean(opt.strip()) for opt in text.split(",") if opt.strip()]
RECURSIVE CleanParts(_)
CleanParts(parts) ==
  IF parts = <<>> THEN <<>>
  ELSE LET opt == Strip(Head(parts), Whitespace)
       IN  IF opt = <<>> THEN CleanParts(Tail(parts))
           ELSE <<clean_poll_option(opt)>> \o CleanParts(Tail(parts))

CommaOptions(text) == CleanParts(SplitOn(text, 44))

\* SELECT poll_id FROM polls WHERE creator_id = ? AND question = ? AND
\* created_date > hour_ago, as a set of possible answers.  created_date is the
\* text SQLite stored, "YYYY-MM-DD HH:MM:SS" in UTC, hour_ago the ISO text of
\* the local clock, "YYYY-MM-DDTHH:MM:SS": the row is found only when its day
\* is later than the cutoff's day.  With the local clock at or ahead of UTC
\* that is so for a row of the last hour when the cutoff falls on the day
\* before, and for no older row.
DuplicateFound(P, question, creator_id) ==
  IF \E p \in DOMAIN P : /\ P[p].creator_id = creator_id
                         /\ P[p].question = question
                         /\ P[p].recent
  THEN {TRUE, FALSE} ELSE {FALSE}

\* create_poll: TRUE when the poll row is inserted; existing is the answer
\* of the duplicate query
create_poll_accepted(P, question, options, creator_id, existing) ==
  /\ validate_poll_data(question, CleanAll(options))
  /\ ~ existing

\* create_poll with the defaults of its callers' arguments: the row is
\* inserted and the poll message rendered, or nothing is written
create_poll(question, options, creator_id, threshold, max_participants, existing) ==
  /\ IF create_poll_accepted(polls, question, options, creator_id, existing)
     THEN /\ polls' =
               InsertRow(polls, issued + 1,
                         NewPoll(question, CleanAll(options), creator_id, threshold,
                                 determine_voting_type(CleanAll(options)),
                                 max_participants, <<>>))
          /\ issued' = issued + 1
          /\ keyboards' = RenderKeyboard(keyboards, polls', issued + 1)
     ELSE UNCHANGED <<polls, issued, keyboards>>
  /\ UNCHANGED <<users, poll_votes, templates, template_sessions, user_states,
                 user_settings>>

\* the states in which a text is not routed to the template session
SessionExempt ==
  {"waiting_poll_question", "waiting_poll_option", "waiting_poll_options",
   "waiting_decision_number_input", "waiting_template_name",
   "waiting_template_question", "waiting_template_option",
   "waiting_template_options", "waiting_template_threshold",
   "waiting_edit_template_threshold", "waiting_max_participants",
   "waiting_template_creation_threshold", "waiting_template_poll_threshold",
   "waiting_poll_threshold"}

\* the text is the value of the session's current variable
SessionInput(user_id, text) ==
  LET session == template_sessions[user_id]
      current == session.current_variable
  IN  /\ IF current >= Len(session.variables_needed)
         THEN /\ template_sessions' = DeleteRow(template_sessions, user_id)
              /\ user_states' = clear_user_state(user_states, user_id)
         ELSE LET TS1 == [template_sessions EXCEPT
                            ![user_id].variables_values =
                               SetValue(@, session.variables_needed[current + 1],
                                        sanitize(text, 100)),
                            ![user_id].current_variable = current + 1]
                  after == ask_next_variable(user_states, TS1, user_id)
              IN  /\ user_states' = after[1]
                  /\ template_sessions' = after[2]
      /\ UNCHANGED <<users, polls, poll_votes, keyboards, templates,
                     user_settings, issued>>

handle_poll_question_input(user_id, text, data) ==
  /\ IF data.type = "edit_question"
     THEN IF data.poll_id \notin DOMAIN polls
          THEN /\ user_states' = clear_user_state(user_states, user_id)
               /\ UNCHANGED polls
          ELSE IF user_id # polls[data.poll_id].creator_id
                  /\ get_permissions(users, user_id) # "admin"
          THEN /\ user_states' = clear_user_state(user_states, user_id)
               /\ UNCHANGED polls
          ELSE IF Len(text) > 300
          THEN UNCHANGED <<user_states, polls>>
          ELSE /\ polls' = [polls EXCEPT ![data.poll_id].question = text]
               /\ user_states' = clear_user_state(user_states, user_id)
     ELSE /\ UNCHANGED polls
          /\ IF get_permissions(users, user_id) \notin {"create", "admin"}
             THEN user_states' = clear_user_state(user_states, user_id)
             ELSE IF Len(text) > 300
             THEN UNCHANGED user_states
             ELSE user_states' =
                    set_user_state(user_states, user_id, "waiting_poll_option",
                                   [data EXCEPT !.question = text, !.options = <<>>])
  /\ UNCHANGED <<users, poll_votes, keyboards, templates, template_sessions,
                 user_settings, issued>>

\* one option per message; from the second option on the wizard waits in
\* waiting_template_option, from where simple drafts are routed back here
handle_poll_option_input(user_id, text, data) ==
  /\ IF get_permissions(users, user_id) \notin {"create", "admin"}
     THEN user_states' = clear_user_state(user_states, user_id)
     ELSE IF Strip(text, Whitespace) = <<>> \/ Len(text) > 100
     THEN UNCHANGED user_states
     ELSE LET options == Append(data.options,
                                clean_poll_option(Strip(text, Whitespace)))
          IN  IF Len(options) < 2
              THEN user_states' =
                     set_user_state(user_states, user_id, "waiting_poll_option",
                                    [data EXCEPT !.options = options])
              ELSE IF Len(options) >= 10
              THEN user_states' =
                     finalize_poll_creation(user_states, user_id, data.question, options)
              ELSE user_states' =
                     set_user_state(user_states, user_id, "waiting_template_option",
                                    [data EXCEPT !.options = options])
  /\ UNCHANGED <<users, polls, poll_votes, keyboards, templates,
                 template_sessions, user_settings, issued>>

\* the options of an existing poll are replaced: no status check, the
\* voting type and the recorded votes are left as they are
handle_poll_options_input(user_id, text, data) ==
  /\ IF data.type = "edit_options"
     THEN /\ UNCHANGED <<issued, keyboards>>
          /\ IF data.poll_id \notin DOMAIN polls
             THEN /\ user_states' = clear_user_state(user_states, user_id)
                  /\ UNCHANGED polls
             ELSE IF user_id # polls[data.poll_id].creator_id
                     /\ get_permissions(users, user_id) # "admin"
             THEN /\ user_states' = clear_user_state(user_states, user_id)
                  /\ UNCHANGED polls
             ELSE LET options == CommaOptions(text)
                  IN  IF \/ Len(options) < 2
                         \/ Len(options) > 10
                         \/ \E i \in 1..Len(options) : Len(options[i]) > 100
                      THEN UNCHANGED <<user_states, polls>>
                      ELSE /\ polls' = [polls EXCEPT
                                          ![data.poll_id].options = JoinBar(CleanAll(options))]
                           /\ user_states' = clear_user_state(user_states, user_id)
     ELSE IF get_permissions(users, user_id) \notin {"create", "admin"}
     THEN /\ user_states' = clear_user_state(user_states, user_id)
          /\ UNCHANGED <<polls, issued, keyboards>>
     ELSE LET options == CommaOptions(text)
          IN  \E existing \in DuplicateFound(polls, data.question, user_id) :
              IF /\ validate_poll_data(data.question, options)
                 /\ create_poll_accepted(polls, data.question, options, user_id, existing)
              THEN /\ polls' =
                        InsertRow(polls, issued + 1,
                                  NewPoll(data.question, CleanAll(options), user_id, 50,
                                          determine_voting_type(options), 0, <<>>))
                   /\ issued' = issued + 1
                   /\ keyboards' = RenderKeyboard(keyboards, polls', issued + 1)
                   /\ user_states' = clear_user_state(user_states, user_id)
              ELSE UNCHANGED <<polls, issued, keyboards, user_states>>
  /\ UNCHANGED <<users, poll_votes, templates, template_sessions, user_settings>>

\* the typed number becomes the user's last number and the poll's decision
\* number; a payload without a template raises KeyError, which the outer
\* handler answers by clearing the state
decision_number_input(user_id, text, data) ==
  LET num == ParseInt(text)
      settings == get_user_settings(user_settings, user_id)
  IN  IF num = <<>>
      THEN UNCHANGED dbvars
      ELSE /\ user_settings' =
                set_user_settings(user_settings, user_id,
                                  [settings EXCEPT !.last_decision_number = num])
           /\ user_states' = clear_user_state(user_states, user_id)
           /\ IF data.template_id # 0
                 /\ template_poll_accepted(users, user_id, data.question,
                                           data.options_str, data.values)
              THEN /\ polls' =
                        InsertRow(polls, issued + 1,
                                  template_poll_row(user_id, data.question,
                                                    data.options_str, data.values,
                                                    data.threshold, data.max_participants,
                                                    num))
                   /\ issued' = issued + 1
                   /\ keyboards' = RenderKeyboard(keyboards, polls', issued + 1)
              ELSE UNCHANGED <<polls, issued, keyboards>>
           /\ UNCHANGED <<users, poll_votes, templates, template_sessions>>

\* any integer is taken as the cap; the wizard moves on to the threshold
max_participants_input(user_id, text, data) ==
  LET max_participants == ParseInt(text)
  IN  /\ IF max_participants = <<>>
         THEN UNCHANGED user_states
         ELSE user_states' =
                set_user_state(user_states, user_id,
                               IF data.is_template
                               THEN "waiting_template_poll_threshold"
                               ELSE "waiting_poll_threshold",
                               [data EXCEPT !.max_participants = max_participants[1]])
      /\ UNCHANGED <<users, polls, poll_votes, keyboards, templates,
                     template_sessions, user_settings, issued>>

\* the state is cleared whether or not the poll is created
template_poll_threshold_input(user_id, text, data) ==
  LET threshold == ParseInt(text)
  IN  IF threshold = <<>>
      THEN UNCHANGED dbvars
      ELSE IF threshold[1] < 1 \/ threshold[1] > 100
      THEN UNCHANGED dbvars
      ELSE /\ user_states' = clear_user_state(user_states, user_id)
           /\ IF template_poll_accepted(users, user_id, data.question,
                                        data.options_str, data.values)
              THEN /\ polls' =
                        InsertRow(polls, issued + 1,
                                  template_poll_row(user_id, data.question,
                                                    data.options_str, data.values,
                                                    threshold[1], data.max_participants,
                                                    <<>>))
                   /\ issued' = issued + 1
                   /\ keyboards' = RenderKeyboard(keyboards, polls', issued + 1)
              ELSE UNCHANGED <<polls, issued, keyboards>>
           /\ UNCHANGED <<users, poll_votes, templates, template_sessions,
                          user_settings>>

\* the state is cleared only when the poll is created
poll_threshold_input(user_id, text, data) ==
  LET threshold == ParseInt(text)
  IN  IF threshold = <<>>
      THEN UNCHANGED dbvars
      ELSE IF threshold[1] < 1 \/ threshold[1] > 100
      THEN UNCHANGED dbvars
      ELSE \E existing \in DuplicateFound(polls, data.question, user_id) :
           IF create_poll_accepted(polls, data.question, data.options, user_id, existing)
      THEN /\ polls' =
                InsertRow(polls, issued + 1,
                          NewPoll(data.question, CleanAll(data.options), user_id,
                                  threshold[1], determine_voting_type(data.options),
                                  data.max_participants, <<>>))
           /\ issued' = issued + 1
           /\ keyboards' = RenderKeyboard(keyboards, polls', issued + 1)
           /\ user_states' = clear_user_state(user_states, user_id)
           /\ UNCHANGED <<users, poll_votes, templates, template_sessions,
                          user_settings>>
      ELSE UNCHANGED dbvars

\* any integer is written into templates.threshold; UPDATE succeeds whether
\* or not the row is still there
edit_template_threshold_input(user_id, text, data) ==
  LET threshold == ParseInt(text)
  IN  IF threshold = <<>>
      THEN UNCHANGED dbvars
      ELSE /\ user_states' = clear_user_state(user_states, user_id)
           /\ IF data.template_id \in DOMAIN templates
              THEN templates' = [templates EXCEPT
                                   ![data.template_id].threshold = threshold[1]]
              ELSE UNCHANGED templates
           /\ UNCHANGED <<users, polls, poll_votes, keyboards, template_sessions,
                          user_settings, issued>>

\* text_handler: the message is sanitized, then routed by session and state.
\* The template authoring states are not entered here and change nothing.
text_handler(user_id, message) ==
  LET text == sanitize(message, 500)
      state == user_states[user_id].state
      data == user_states[user_id].data
  IN  IF text = <<>> THEN UNCHANGED dbvars
      ELSE IF state \notin SessionExempt /\ user_id \in DOMAIN template_sessions
      THEN SessionInput(user_id, text)
      ELSE IF state = "waiting_poll_question"
      THEN handle_poll_question_input(user_id, text, data)
      ELSE IF state = "waiting_poll_option"
      THEN handle_poll_option_input(user_id, text, data)
      ELSE IF state = "waiting_poll_options"
      THEN handle_poll_options_input(user_id, text, data)
      ELSE IF state = "waiting_template_option" /\ data.type = "simple"
      THEN handle_poll_option_input(user_id, text, data)
      ELSE IF state = "waiting_decision_number_input"
      THEN decision_number_input(user_id, text, data)
      ELSE IF state = "waiting_edit_template_threshold"
      THEN edit_template_threshold_input(user_id, text, data)
      ELSE IF state = "waiting_max_participants"
      THEN max_participants_input(user_id, text, data)
      ELSE IF state = "waiting_template_poll_threshold"
      THEN template_poll_threshold_input(user_id, text, data)
      ELSE IF state = "waiting_poll_threshold"
      THEN poll_threshold_input(user_id, text, data)
      ELSE UNCHANGED dbvars

\* more than an hour passes: no poll counts as created within the last hour
HourPasses ==
  /\ \E p \in DOMAIN polls : polls[p].recent
  /\ polls' = [p \in DOMAIN polls |-> [polls[p] EXCEPT !.recent = FALSE]]
  /\ UNCHANGED <<users, poll_votes, keyboards, templates, template_sessions,
                 user_states, user_settings, issued>>

(***************************************************************************)
(* Initial state: the store of a deployment with an administrator, a poll  *)
(* creator, a voter and one saved template with one variable               *)
(***************************************************************************)

EmptyTable == [k \in {} |-> 0]

MaxPolls == 2
MaxPollsVoting == 1

InitDb ==
  /\ users = [u \in Users |-> IF u = 1 THEN "admin" ELSE IF u = 2 THEN "create" ELSE "use"]
  /\ polls = EmptyTable
  /\ poll_votes = {}
  /\ keyboards = EmptyTable
  /\ templates =
       [t \in {1} |->
          [question |-> T_TemplateQuestion, options |-> JoinBar(<<T_Da, T_Net>>),
           variables |-> <<T_x>>, threshold |-> 50, max_participants |-> 0,
           created_by |-> 2]]
  /\ template_sessions = EmptyTable
  /\ user_states = [u \in Users |-> IdleState]
  /\ user_settings = EmptyTable
  /\ issued = 0

\* no callback in progress
NotSuspended == [at |-> "none", poll_id |-> 0, option_id |-> 0]

\* no poll and no session yet, a limiter that has counted nothing, no
\* handler in progress
InitClock ==
  /\ suspended = [u \in Users |-> NotSuspended]
  /\ poll_age = [p \in 1..MaxPolls |-> 0]
  /\ session_age = [u \in Users |-> 0]
  /\ state_age = [u \in Users |-> 0]
  /\ requests = EmptyTable
  /\ last_cleanup = 0
  /\ crowd = [n |-> 0, age |-> 0]
  /\ inbound = [u \in Users |-> <<>>]
  /\ granted = [u \in Users |-> <<>>]

Init ==
  /\ InitDb
  /\ InitClock
  /\ dvt_in = <<>>
  /\ dvt_out = "unset"
  /\ call_in = <<>>
  /\ call_out = <<>>

(***************************************************************************)
(* Inputs                                                                  *)
(***************************************************************************)


\* the user who starts wizards
Creators == {2}

\* the option lists the poll wizard is taken through, one option a message
OptionLists ==
  {<<T_Da, T_Net>>, <<T_Da, T_Net, T_Vozderzhalsya>>, <<T_A, T_B, T_C>>}

IsPrefix(s, t) == Len(s) <= Len(t) /\ SubSeq(t, 1, Len(s)) = s

NextOptionTexts(options) ==
  {t \in {T_Da, T_Net, T_Vozderzhalsya, T_A, T_B, T_C} :
     \E l \in OptionLists : IsPrefix(Append(options, t), l)}

\* what a user types, given what the bot is waiting for
TypedTexts(user_id, caps, thresholds, numbers) ==
  LET state == user_states[user_id].state
      data == user_states[user_id].data
  IN  IF state \notin SessionExempt /\ user_id \in DOMAIN template_sessions
      THEN {T_1}
      ELSE IF state = "waiting_poll_question" THEN {T_Question}
      ELSE IF state \in {"waiting_poll_option", "waiting_template_option"}
      THEN NextOptionTexts(data.options)
      ELSE IF state = "waiting_poll_options" THEN {T_Net_Da}
      ELSE IF state = "waiting_max_participants" THEN caps
      ELSE IF state \in {"waiting_poll_threshold", "waiting_template_poll_threshold"}
      THEN thresholds
      ELSE IF state = "waiting_decision_number_input" THEN numbers
      ELSE {}

\* a vote button that some rendering of the poll has put on screen
VoteButtons(poll_id) ==
  IF poll_id \in DOMAIN keyboards THEN 0..(keyboards[poll_id] - 1) ELSE {}

(***************************************************************************)
(* Voting: the poll wizard, votes, closing, editing and deleting           *)
(***************************************************************************)

Vote(voters) ==
  \E u \in voters, p \in DOMAIN polls : \E o \in VoteButtons(p) : vote_handler(u, p, o)

ClosePoll == \E u \in Users, p \in DOMAIN polls : close_poll_handler(u, p)

ShowPoll == \E u \in Users, p \in DOMAIN polls : show_single_poll(u, p)

DeletePoll == \E u \in Users, p \in DOMAIN polls : confirm_delete_poll_handler(u, p)

EditOptions == \E u \in Users, p \in DOMAIN polls : start_edit_poll_options(u, p)

FinishPollCreation ==
  \E u \in Users :
    /\ user_states[u].state = "waiting_template_option"
    /\ finish_poll_creation(u)

NextVoting ==
  /\ UNCHANGED <<typevars, clockvars>>
  /\ \/ Vote(Users)
     \/ ClosePoll
     \/ ShowPoll
     \/ DeletePoll
     \/ EditOptions
     \/ \E u \in Creators : issued < MaxPollsVoting /\ create_simple(u)
     \/ FinishPollCreation
     \/ \E u \in Users :
          \E t \in TypedTexts(u, {T_0, T_2}, {T_30, T_50, T_67}, {}) : text_handler(u, t)
     \/ HourPasses

SpecVoting == Init /\ [][NextVoting]_vars

(***************************************************************************)
(* Numbering: polls made from the template, with and without a typed       *)
(* decision number, votes, closing and deleting                            *)
(***************************************************************************)

\* the voter hides or shows the decision status, the creator skips or takes
\* the numbering step
ToggleSetting ==
  \/ toggle_setting(3, "show_decision_status")
  \/ \E u \in Creators : toggle_setting(u, "show_decision_numbers")

ContinueTemplate ==
  \E u \in Creators, t \in DOMAIN templates : issued < MaxPolls /\ continue_tpl(u, t)

EnterDecisionNumber ==
  \E u \in Users :
    /\ user_states[u].state = "waiting_decision_number"
    /\ issued < MaxPolls
    /\ enter_decision_number(u)

NextDecisionNumber ==
  \E u \in Users :
    /\ user_states[u].state = "waiting_decision_number"
    /\ issued < MaxPolls
    /\ next_decision_number(u)

NextNumbering ==
  /\ UNCHANGED <<typevars, clockvars>>
  /\ \/ Vote({3})
     \/ ClosePoll
     \/ ShowPoll
     \/ DeletePoll
     \/ ToggleSetting
     \/ ContinueTemplate
     \/ EnterDecisionNumber
     \/ NextDecisionNumber
     \/ \E u \in Users :
          \E t \in TypedTexts(u, {T_0}, {T_50}, {T_0, T_1}) : text_handler(u, t)

SpecNumbering == Init /\ [][NextNumbering]_vars

(***************************************************************************)
(* The whole program                                                       *)
(***************************************************************************)

Next == NextVoting \/ NextNumbering

Spec == Init /\ [][Next]_vars

(***************************************************************************)
(* Access: votes by users with and without a users row, on open, closed    *)
(* and deleted polls                                                       *)
(***************************************************************************)

\* a vote button of a poll that has been deleted is still on screen
VoteDeleted ==
  \E u \in Users, p \in (1..issued) \ DOMAIN polls : vote_handler(u, p, 0)

AdminDeleteUser ==
  \E u \in Users, target \in DOMAIN users \ {1, 2} : admin_confirm_delete(u, target)

NextAccess ==
  /\ UNCHANGED <<typevars, clockvars>>
  /\ \/ Vote(Users)
     \/ VoteDeleted
     \/ ClosePoll
     \/ DeletePoll
     \/ AdminDeleteUser
     \/ \E u \in Creators : issued < MaxPollsVoting /\ create_simple(u)
     \/ FinishPollCreation
     \/ \E u \in Users :
          \E t \in TypedTexts(u, {T_0}, {T_50}, {}) : text_handler(u, t)

SpecAccess == Init /\ [][NextAccess]_vars

\* C13 as stated: a vote by a user who has no permission and is not known to
\* be a member of the poll's chat records nothing, and neither does a vote
\* on an unknown poll or on a closed poll.
C13_RejectedVotes ==
  [][\A u \in Users, p \in 1..issued :
       \A o \in {0} \cup VoteButtons(p) :
         vote_handler(u, p, o) =>
           /\ get_permissions(users, u) \notin {"use", "create", "admin"}
                => poll_votes' = poll_votes
           /\ p \notin DOMAIN polls => poll_votes' = poll_votes
           /\ (p \in DOMAIN polls /\ polls[p].status = "closed")
                => poll_votes' = poll_votes]_vars


(***************************************************************************)
(* Time: the rate limiter, the periodic cleanup and the ages it looks at   *)
(***************************************************************************)

RATE_LIMIT_WINDOW == 3600
SESSION_TIMEOUT == 7200
MAX_USERS_IN_MEMORY == 1000

\* config "auto_close_hours", in seconds
auto_close_hours == 24
AutoCloseSeconds == auto_close_hours * 3600

\* periodic_cleanup sleeps this long between two runs; time advances in
\* steps of it
CleanupPeriod == 1800

\* config "rate_limit_hour" (the file's value; 10 when the file has none)
rate_limit_hour == 4

Least(a, b) == IF a < b THEN a ELSE b

\* every stored instant is d seconds further in the past; an age is followed
\* up to the point where no comparison of the program can tell it from an
\* older one
Older(ages, d, cap) == [i \in DOMAIN ages |-> Least(ages[i] + d, cap)]

Within(ages, window) == SelectSeq(ages, LAMBDA a : a < window)

TimePasses(d) ==
  /\ poll_age' = [p \in 1..MaxPolls |->
                    IF p \in DOMAIN polls
                    THEN Least(poll_age[p] + d, AutoCloseSeconds + CleanupPeriod)
                    ELSE poll_age[p]]
  /\ session_age' = [u \in Users |->
                       IF u \in DOMAIN template_sessions
                       THEN Least(session_age[u] + d, SESSION_TIMEOUT + CleanupPeriod)
                       ELSE session_age[u]]
  /\ state_age' = [u \in Users |->
                     IF user_states[u].state # "idle"
                     THEN Least(state_age[u] + d, SESSION_TIMEOUT + CleanupPeriod)
                     ELSE state_age[u]]
  /\ requests' = [u \in DOMAIN requests |-> Older(requests[u], d, RATE_LIMIT_WINDOW)]
  /\ last_cleanup' = Least(last_cleanup + d, 61)
  /\ crowd' = IF crowd.n = 0 THEN crowd
              ELSE [crowd EXCEPT !.age = Least(crowd.age + d, RATE_LIMIT_WINDOW)]
  /\ inbound' = [u \in Users |-> Within(Older(inbound[u], d, 60), 60)]
  /\ granted' = [u \in Users |->
                   Within(Older(granted[u], d, RATE_LIMIT_WINDOW), RATE_LIMIT_WINDOW)]
  /\ polls' = [p \in DOMAIN polls |->
                 [polls[p] EXCEPT !.recent = polls[p].recent /\ poll_age'[p] < 3600]]
  /\ UNCHANGED <<users, poll_votes, keyboards, templates, template_sessions,
                 user_states, user_settings, issued, typevars>>

Tick == TimePasses(CleanupPeriod)

(***************************************************************************)
(* RateLimiter                                                             *)
(***************************************************************************)

\* the key max(x[1]) if x[1] else 0 of the sort in cleanup, as an age: the
\* larger, the earlier in the sorted list; an empty list comes first
SortAge(ts) == IF ts = <<>> THEN RATE_LIMIT_WINDOW + 1 ELSE ts[Len(ts)]

\* the keys of Users that may stand among the first MAX_USERS_IN_MEMORY \div 2
\* of the sorted list: R holds every key with fewer than that many keys
\* before it however ties fall, and no key with that many keys strictly
\* before it
MayBeOldest(R, c, removed) ==
  LET half == MAX_USERS_IN_MEMORY \div 2
      Before(u, strict) ==
        Cardinality({v \in DOMAIN R \ {u} :
                       \/ SortAge(R[v]) > SortAge(R[u])
                       \/ ~strict /\ SortAge(R[v]) = SortAge(R[u])})
        + (IF c.n > 0 /\ (c.age > SortAge(R[u]) \/ (~strict /\ c.age = SortAge(R[u])))
           THEN c.n ELSE 0)
  IN /\ removed \subseteq DOMAIN R
     /\ \A u \in DOMAIN R :
          /\ Before(u, FALSE) < half => u \in removed
          /\ Before(u, TRUE) >= half => u \notin removed

\* RateLimiter.cleanup: the pairs <<requests, crowd>> it may leave
cleanup(R, c) ==
  LET half == MAX_USERS_IN_MEMORY \div 2
      Removals == IF Cardinality(DOMAIN R) + c.n > MAX_USERS_IN_MEMORY
                  THEN {rm \in SUBSET DOMAIN R : MayBeOldest(R, c, rm)}
                  ELSE {{}}
      After(rm) ==
        LET R1 == [u \in DOMAIN R \ rm |-> Within(R[u], RATE_LIMIT_WINDOW)]
            n1 == IF Cardinality(DOMAIN R) + c.n > MAX_USERS_IN_MEMORY
                  THEN c.n - (half - Cardinality(rm)) ELSE c.n
            c1 == IF n1 = 0 \/ c.age >= RATE_LIMIT_WINDOW
                  THEN [n |-> 0, age |-> 0] ELSE [n |-> n1, age |-> c.age]
        IN <<[u \in {v \in DOMAIN R1 : R1[v] # <<>>} |-> R1[u]], c1>>
  IN {After(rm) : rm \in Removals}

\* the limiter after the cleanup that is_allowed runs when the last one is
\* more than a minute old
MaybeCleaned(R, c, since) == IF since > 60 THEN cleanup(R, c) ELSE {<<R, c>>}

Requests(R, user_id) == IF user_id \in DOMAIN R THEN R[user_id] ELSE <<>>

SetRequests(R, user_id, ts) ==
  [u \in DOMAIN R \cup {user_id} |-> IF u = user_id THEN ts ELSE R[u]]

\* RateLimiter.is_allowed(user_id, limit) answering allowed
is_allowed(user_id, limit, allowed) ==
  \E rc \in MaybeCleaned(requests, crowd, last_cleanup) :
    LET user_reqs == Within(Requests(rc[1], user_id), RATE_LIMIT_WINDOW)
    IN /\ last_cleanup' = IF last_cleanup > 60 THEN 0 ELSE last_cleanup
       /\ crowd' = rc[2]
       /\ allowed = (Len(user_reqs) < limit)
       /\ requests' = SetRequests(rc[1], user_id,
                                  IF allowed THEN Append(user_reqs, 0) ELSE user_reqs)

\* RateLimiter.is_user_flooding(user_id)
is_user_flooding(R, user_id) ==
  \/ Len(Within(Requests(R, user_id), 60)) > 10
  \/ Len(Within(Requests(R, user_id), 10)) > 3

(***************************************************************************)
(* The periodic cleanup                                                    *)
(***************************************************************************)

\* DELETE FROM template_sessions WHERE created_date < cutoff compares the
\* text SQLite stored, "YYYY-MM-DD HH:MM:SS", with the ISO text of the cutoff,
\* "YYYY-MM-DDTHH:MM:SS": a row stays only when its day is later than the
\* cutoff's day, which a row older than SESSION_TIMEOUT never is and a younger
\* one is only in the first hours of a day
ExpiredSessions(TS, age) ==
  {gone \in SUBSET DOMAIN TS : \A u \in DOMAIN TS : age[u] > SESSION_TIMEOUT => u \in gone}

\* cleanup_old_data: sessions, idle states (a missing row reads as idle), the
\* limiter; no statement of it touches polls
cleanup_old_data ==
  /\ \E gone \in ExpiredSessions(template_sessions, session_age) :
       template_sessions' = [u \in DOMAIN template_sessions \ gone |-> template_sessions[u]]
  /\ \E rc \in cleanup(requests, crowd) : requests' = rc[1] /\ crowd' = rc[2]
  /\ UNCHANGED <<users, polls, poll_votes, keyboards, templates, user_states,
                 user_settings, issued, typevars,
                 poll_age, session_age, state_age, last_cleanup, logvars>>

\* set_user_state stamps the row with the current time; the age of a wizard
\* state is followed, a row that is idle or missing has none
StateStamped ==
  state_age' = [u \in Users |->
                  IF user_states'[u] # user_states[u] \/ user_states'[u].state = "idle"
                  THEN 0 ELSE state_age[u]]

\* a handler that leaves the limiter alone; a created poll and a created
\* session start their age
Stamped(A) ==
  /\ A
  /\ poll_age' = [p \in 1..MaxPolls |->
                    IF p \in DOMAIN polls' \ DOMAIN polls THEN 0 ELSE poll_age[p]]
  /\ StateStamped
  /\ UNCHANGED <<session_age, limitervars, logvars, typevars>>

StampedSession(u, A) ==
  /\ A
  /\ session_age' = [session_age EXCEPT ![u] = 0]
  /\ StateStamped
  /\ UNCHANGED <<poll_age, limitervars, logvars, typevars>>

NextSweep ==
  \/ Stamped(\E u \in Creators : issued < MaxPollsVoting /\ create_simple(u))
  \/ Stamped(FinishPollCreation)
  \/ Stamped(\E u \in Users :
               \E t \in TypedTexts(u, {T_0}, {T_50}, {}) : text_handler(u, t))
  \/ Stamped(Vote({3}))
  \/ Stamped(ClosePoll)
  \/ \E u \in Creators, t \in DOMAIN templates :
       issued < MaxPollsVoting /\ StampedSession(u, continue_tpl(u, t))
  \/ Tick
  \/ cleanup_old_data

\* the cleanup task runs again and again, and time goes on
SpecSweep == Init /\ [][NextSweep]_vars /\ WF_vars(cleanup_old_data) /\ WF_vars(Tick)

(***************************************************************************)
(* The two gates: permission_required on /create and /admin, and the flood *)
(* check of callback_handler and text_handler                              *)
(***************************************************************************)

GateOutcomes == {"forbidden", "limited", "run"}

\* permission_required(permissions) around a handler: outcome tells which
\* of its three ways the call went
permission_required(user_id, permissions, outcome, body) ==
  IF get_permissions(users, user_id) \notin permissions \cup {"admin"}
  THEN /\ outcome = "forbidden"
       /\ UNCHANGED <<dbvars, limitervars, granted>>
  ELSE \E allowed \in BOOLEAN :
         /\ is_allowed(user_id, rate_limit_hour, allowed)
         /\ outcome = IF allowed THEN "run" ELSE "limited"
         /\ granted' = IF allowed
                       THEN [granted EXCEPT ![user_id] = Append(@, 0)] ELSE granted
         /\ IF allowed THEN body ELSE UNCHANGED dbvars

\* /create in a private chat, or in a group, where it only answers
create_command(user_id, outcome) ==
  permission_required(user_id, {"create"}, outcome,
    \E private \in BOOLEAN :
      /\ user_states' = IF private THEN clear_user_state(user_states, user_id)
                        ELSE user_states
      /\ UNCHANGED <<users, polls, poll_votes, keyboards, templates,
                     template_sessions, user_settings, issued>>)

\* /admin shows the admin menu
admin_command(user_id, outcome) ==
  permission_required(user_id, {"admin"}, outcome, UNCHANGED dbvars)

\* the flood check that opens callback_handler and text_handler; reading
\* requests[user_id] leaves an empty list under a key that was missing
flood_checked(user_id, body) ==
  /\ requests' = SetRequests(requests, user_id, Requests(requests, user_id))
  /\ IF is_user_flooding(requests, user_id) THEN UNCHANGED dbvars ELSE body
  /\ UNCHANGED <<last_cleanup, crowd, granted>>

\* an update of the user arrives
Received(user_id) == inbound' = [inbound EXCEPT ![user_id] = Append(@, 0)]

\* MAX_USERS_IN_MEMORY users outside Users, allowed to /create, call it once
\* each at this instant; the first of the calls runs the cleanup that is due
CrowdCalls ==
  /\ \E rc \in MaybeCleaned(requests, crowd, last_cleanup) : requests' = rc[1]
  /\ last_cleanup' = IF last_cleanup > 60 THEN 0 ELSE last_cleanup
  /\ crowd' = [n |-> MAX_USERS_IN_MEMORY, age |-> 0]
  /\ UNCHANGED <<dbvars, typevars, poll_age, session_age, state_age, logvars>>

\* the grants are followed up to this many in one window
MaxGranted == rate_limit_hour + 1

GatedCall(user_id, outcome) ==
  /\ Len(granted[user_id]) <= MaxGranted
  /\ \/ create_command(user_id, outcome)
     \/ admin_command(user_id, outcome)
  /\ StateStamped
  /\ UNCHANGED <<typevars, poll_age, session_age, inbound>>

NextLimiter ==
  \/ \E u \in Users, outcome \in GateOutcomes : GatedCall(u, outcome)
  \/ CrowdCalls
  \/ Tick
  \/ cleanup_old_data

SpecLimiter == Init /\ [][NextLimiter]_vars

\* the updates of one user are followed up to this many within a minute
MaxBurst == 5

\* a button press: callback_handler, its flood check, then the dispatch
ButtonPressed(u) ==
  /\ Received(u)
  /\ flood_checked(u,
       \/ toggle_setting(u, "show_decision_status")
       \/ u \in Creators /\ issued < MaxPollsVoting /\ create_simple(u))

\* a text message: text_handler with its flood check
TextSent(u) ==
  /\ Received(u)
  /\ \E t \in TypedTexts(u, {T_0}, {T_50}, {}) : flood_checked(u, text_handler(u, t))

\* /create and /admin: no flood check on the way to the handler
CommandSent(u) ==
  /\ Received(u)
  /\ \E outcome \in GateOutcomes :
       create_command(u, outcome) \/ admin_command(u, outcome)

\* one more update of the user within the burst that is followed
Arrives(u, A) ==
  /\ Len(inbound[u]) < MaxBurst
  /\ A
  /\ StateStamped
  /\ UNCHANGED <<typevars, poll_age, session_age>>

NextFlood ==
  \/ \E u \in {2, 3} : Arrives(u, ButtonPressed(u))
  \/ \E u \in {2, 3} : Arrives(u, TextSent(u))
  \/ \E u \in {2, 3} : Arrives(u, CommandSent(u))
  \/ Tick

SpecFlood == Init /\ [][NextFlood]_vars

(***************************************************************************)
(* The wizards: simple poll, template instantiation, option edit and       *)
(* template threshold edit, with inputs their states accept and refuse     *)
(***************************************************************************)

\* what the user may type in the state they are in: values the state takes
\* and values it is to refuse
WizardTexts(user_id) ==
  LET state == user_states[user_id].state
      data == user_states[user_id].data
  IN  IF state \notin SessionExempt /\ user_id \in DOMAIN template_sessions
      THEN {T_1}
      ELSE IF state = "waiting_poll_question" THEN {T_Question}
      ELSE IF state \in {"waiting_poll_option", "waiting_template_option"}
      THEN NextOptionTexts(data.options) \cup {T_blank}
      ELSE IF state = "waiting_poll_options" THEN {T_Net_Da, T_A}
      ELSE IF state = "waiting_max_participants" THEN {T_0, T_minus_1, T_x}
      ELSE IF state \in {"waiting_poll_threshold", "waiting_template_poll_threshold",
                         "waiting_edit_template_threshold"}
      THEN {T_50, T_0, T_101, T_x}
      ELSE IF state = "waiting_decision_number_input" THEN {T_1, T_x}
      ELSE {}

EditTemplateThreshold ==
  \E u \in Users, t \in DOMAIN templates : edit_tpl_threshold(u, t)

WizardText == \E u \in Users : \E t \in WizardTexts(u) : text_handler(u, t)

NextWizard ==
  /\ UNCHANGED <<typevars, clockvars>>
  /\ \/ \E u \in Creators : issued < MaxPollsVoting /\ create_simple(u)
     \/ \E u \in Creators, t \in DOMAIN templates :
          issued < MaxPollsVoting /\ continue_tpl(u, t)
     \/ EditOptions
     \/ EditTemplateThreshold
     \/ FinishPollCreation
     \/ WizardText

SpecWizard == Init /\ [][NextWizard]_vars

(***************************************************************************)
(* Template instantiation: a template with two variables, filled in by the *)
(* creator and carried through to the poll                                 *)
(***************************************************************************)

\* the template row as handle_template_question_input leaves it: the
\* variables are those extracted from the question
InitTemplate ==
  /\ users = [u \in Users |-> IF u = 1 THEN "admin" ELSE IF u = 2 THEN "create" ELSE "use"]
  /\ polls = EmptyTable
  /\ poll_votes = {}
  /\ keyboards = EmptyTable
  /\ templates =
       [t \in {1} |->
          [question |-> T_TwoVariables, options |-> JoinBar(<<T_Da, T_Net>>),
           variables |-> extract_variables(T_TwoVariables), threshold |-> 50,
           max_participants |-> 0, created_by |-> 2]]
  /\ template_sessions = EmptyTable
  /\ user_states = [u \in Users |-> IdleState]
  /\ user_settings = EmptyTable
  /\ issued = 0
  /\ InitClock
  /\ dvt_in = <<>>
  /\ dvt_out = "unset"
  /\ call_in = <<>>
  /\ call_out = <<>>

\* what the creator types for a variable
VariableValues == {T_1, T_2, T_ref_b}

TemplateTexts(user_id) ==
  LET state == user_states[user_id].state
  IN  IF state \notin SessionExempt /\ user_id \in DOMAIN template_sessions
      THEN VariableValues
      ELSE IF state = "waiting_max_participants" THEN {T_0}
      ELSE IF state = "waiting_template_poll_threshold" THEN {T_50}
      ELSE IF state = "waiting_decision_number_input" THEN {T_1}
      ELSE {}

NextTemplate ==
  /\ UNCHANGED <<typevars, clockvars>>
  /\ \/ \E u \in Creators, t \in DOMAIN templates :
          issued < MaxPollsVoting /\ continue_tpl(u, t)
     \/ \E u \in Creators : \E t \in TemplateTexts(u) : text_handler(u, t)
     \/ \E u \in Creators : toggle_setting(u, "show_decision_numbers")
     \/ \E u \in Creators :
          /\ user_states[u].state = "waiting_decision_number"
          /\ issued < MaxPollsVoting
          /\ enter_decision_number(u)
     \/ \E u \in Creators :
          /\ user_states[u].state = "waiting_decision_number"
          /\ issued < MaxPollsVoting
          /\ next_decision_number(u)

SpecTemplate == InitTemplate /\ [][NextTemplate]_vars

(***************************************************************************)
(* Users: registration, grants, revocation and deletion                    *)
(***************************************************************************)

perm_order == <<"none", "use", "create", "admin">>

\* perm_order.index(permissions)
PermIndex(permissions) == CHOOSE i \in 1..Len(perm_order) : perm_order[i] = permissions

\* /start in a private chat
start_command(user_id) ==
  /\ users' = add_user(users, user_id)
  /\ user_states' = clear_user_state(user_states, user_id)
  /\ UNCHANGED <<polls, poll_votes, keyboards, templates, template_sessions,
                 user_settings, issued>>

\* /grant <user_id> <rights> in a private chat: the row is updated, or made
\* when there is none; nothing is asked of the sender
grant_command(target_user_id, new_permissions) ==
  /\ new_permissions \in {"use", "create", "admin"}
  /\ users' = [u \in DOMAIN users \cup {target_user_id} |->
                 IF u = target_user_id THEN new_permissions ELSE users[u]]
  /\ UNCHANGED <<polls, poll_votes, keyboards, templates, template_sessions,
                 user_states, user_settings, issued>>

\* /revoke <user_id> in a private chat
revoke_command(target_user_id) ==
  /\ users' = [u \in DOMAIN users |-> IF u = target_user_id THEN "use" ELSE users[u]]
  /\ UNCHANGED <<polls, poll_votes, keyboards, templates, template_sessions,
                 user_states, user_settings, issued>>

\* callbacks admin_perm_select:<target>:<perm> and admin_revoke:<target>
\* (new_perm "use"), behind the admin check of handle_admin_callback
admin_perm_select(user_id, target_user_id, new_perm) ==
  /\ LET U == add_user(users, user_id)
     IN  users' = IF get_permissions(U, user_id) # "admin" THEN U
                  ELSE [u \in DOMAIN U |-> IF u = target_user_id THEN new_perm ELSE U[u]]
  /\ UNCHANGED <<polls, poll_votes, keyboards, templates, template_sessions,
                 user_states, user_settings, issued>>

\* callback confirm_delete:<target_user_id>, the button /delete_user sends
handle_user_deletion(user_id, target_user_id) ==
  /\ LET U == add_user(users, user_id)
     IN  IF get_permissions(U, user_id) # "admin" \/ target_user_id \notin DOMAIN U
         THEN /\ users' = U
              /\ UNCHANGED <<poll_votes, user_states, template_sessions>>
         ELSE /\ users' = DeleteRow(U, target_user_id)
              /\ poll_votes' = {r \in poll_votes : r.user_id # target_user_id}
              /\ user_states' = clear_user_state(user_states, target_user_id)
              /\ template_sessions' = DeleteRow(template_sessions, target_user_id)
  /\ UNCHANGED <<polls, keyboards, templates, user_settings, issued>>

\* an update of a user that is no admin action: /start or a button; the
\* wizards are started while a poll id is left
Registers(u) ==
  \/ start_command(u)
  \/ issued < MaxPollsVoting /\ create_simple(u)
  \/ user_states[u].state = "waiting_template_option" /\ finish_poll_creation(u)

DeletesUser(u, target) ==
  admin_confirm_delete(u, target) \/ handle_user_deletion(u, target)

\* the users whose permissions are granted, revoked and deleted
Targets == {2, 3}

\* /grant, /revoke and the buttons of the admin panel
AdminAction ==
  \/ \E p \in {"use", "create", "admin"} : grant_command(3, p)
  \/ revoke_command(3)
  \/ \E u \in Users, p \in {"use", "create", "admin"} : admin_perm_select(u, 3, p)
  \/ \E u \in Users, target \in Targets : DeletesUser(u, target)

NextUsers ==
  /\ UNCHANGED <<typevars, clockvars>>
  /\ \/ \E u \in Users : Registers(u)
     \/ \E t \in DOMAIN templates : issued < MaxPollsVoting /\ continue_tpl(3, t)
     \/ Vote({1, 3})
     \/ \E u \in Creators :
          \E t \in TypedTexts(u, {T_0}, {T_50}, {}) : text_handler(u, t)
     \/ AdminAction

SpecUsers == Init /\ [][NextUsers]_vars

(***************************************************************************)
(* Templates: threshold edit and deletion by owners, admins and others     *)
(***************************************************************************)

\* the buttons of the template menu and the confirmation button, which any
\* user may send
TemplateButton(u, t) ==
  \/ delete_tpl(u, t)
  \/ confirm_delete_template(u, t)
  \/ edit_tpl_threshold(u, t)

\* the numbers typed as a new threshold
ThresholdTexts(user_id) ==
  IF user_states[user_id].state = "waiting_edit_template_threshold"
  THEN {T_30, T_50, T_67} ELSE {}

\* the ids the template buttons on screen carry
TemplateIds == {1}

NextOwnership ==
  /\ UNCHANGED <<typevars, clockvars>>
  /\ \/ \E u \in Users, t \in TemplateIds : TemplateButton(u, t)
     \/ \E u \in Users : \E text \in ThresholdTexts(u) : text_handler(u, text)
     \/ \E u \in Users : start_command(u)
     \/ \E target \in Targets, p \in {"use", "create", "admin"} : grant_command(target, p)
     \/ \E target \in Targets : revoke_command(target)

SpecOwnership == Init /\ [][NextOwnership]_vars

(***************************************************************************)
(* Callback tokens: the allow-list and the dispatch of callback_handler    *)
(***************************************************************************)

\* [0-9], [A-Za-z0-9_] and [a-f0-9-] over the ASCII characters of a token
DigitChars == 48..57
WordChars == DigitChars \cup (65..90) \cup (97..122) \cup {95}
UuidChars == (97..102) \cup DigitChars \cup {45}

AllIn(s, chars) == \A i \in 1..Len(s) : s[i] \in chars

After(s, prefix) == SubSeq(s, Len(prefix) + 1, Len(s))

\* the patterns that are whole words:
\* create_poll templates active_polls closed_polls status admin help
\* display_settings reset_settings back_to_main back_to_templates
\* create_simple create_from_template new_template
\* finish_poll_creation finish_template_creation enter_decision_number
\* next_decision_number admin_users admin_stats admin_back admin_logs
\* admin_logs_stats admin_clear_all_logs admin_clear_logs_by_level
\* admin_view_recent_logs admin_rotate_logs admin_logs_levels
\* admin_third_party_loggers cancel_delete
ExactTokens ==
  {<<99, 114, 101, 97, 116, 101, 95, 112, 111, 108, 108>>,
   <<116, 101, 109, 112, 108, 97, 116, 101, 115>>,
   <<97, 99, 116, 105, 118, 101, 95, 112, 111, 108, 108, 115>>,
   <<99, 108, 111, 115, 101, 100, 95, 112, 111, 108, 108, 115>>,
   <<115, 116, 97, 116, 117, 115>>,
   <<97, 100, 109, 105, 110>>,
   <<104, 101, 108, 112>>,
   <<100, 105, 115, 112, 108, 97, 121, 95, 115, 101, 116, 116, 105, 110, 103, 115>>,
   <<114, 101, 115, 101, 116, 95, 115, 101, 116, 116, 105, 110, 103, 115>>,
   <<98, 97, 99, 107, 95, 116, 111, 95, 109, 97, 105, 110>>,
   <<98, 97, 99, 107, 95, 116, 111, 95, 116, 101, 109, 112, 108, 97, 116, 101, 115>>,
   <<99, 114, 101, 97, 116, 101, 95, 115, 105, 109, 112, 108, 101>>,
   <<99, 114, 101, 97, 116, 101, 95, 102, 114, 111, 109, 95, 116, 101, 109, 112, 108, 97, 116, 101>>,
   <<110, 101, 119, 95, 116, 101, 109, 112, 108, 97, 116, 101>>,
   <<102, 105, 110, 105, 115, 104, 95, 112, 111, 108, 108, 95, 99, 114, 101, 97, 116, 105, 111, 110>>,
   <<102, 105, 110, 105, 115, 104, 95, 116, 101, 109, 112, 108, 97, 116, 101, 95, 99, 114, 101, 97, 116, 105, 111, 110>>,
   <<101, 110, 116, 101, 114, 95, 100, 101, 99, 105, 115, 105, 111, 110, 95, 110, 117, 109, 98, 101, 114>>,
   <<110, 101, 120, 116, 95, 100, 101, 99, 105, 115, 105, 111, 110, 95, 110, 117, 109, 98, 101, 114>>,
   <<97, 100, 109, 105, 110, 95, 117, 115, 101, 114, 115>>,
   <<97, 100, 109, 105, 110, 95, 115, 116, 97, 116, 115>>,
   <<97, 100, 109, 105, 110, 95, 98, 97, 99, 107>>,
   <<97, 100, 109, 105, 110, 95, 108, 111, 103, 115>>,
   <<97, 100, 109, 105, 110, 95, 108, 111, 103, 115, 95, 115, 116, 97, 116, 115>>,
   <<97, 100, 109, 105, 110, 95, 99, 108, 101, 97, 114, 95, 97, 108, 108, 95, 108, 111, 103, 115>>,
   <<97, 100, 109, 105, 110, 95, 99, 108, 101, 97, 114, 95, 108, 111, 103, 115, 95, 98, 121, 95, 108, 101, 118, 101, 108>>,
   <<97, 100, 109, 105, 110, 95, 118, 105, 101, 119, 95, 114, 101, 99, 101, 110, 116, 95, 108, 111, 103, 115>>,
   <<97, 100, 109, 105, 110, 95, 114, 111, 116, 97, 116, 101, 95, 108, 111, 103, 115>>,
   <<97, 100, 109, 105, 110, 95, 108, 111, 103, 115, 95, 108, 101, 118, 101, 108, 115>>,
   <<97, 100, 109, 105, 110, 95, 116, 104, 105, 114, 100, 95, 112, 97, 114, 116, 121, 95, 108, 111, 103, 103, 101, 114, 115>>,
   <<99, 97, 110, 99, 101, 108, 95, 100, 101, 108, 101, 116, 101>>}

\* a prefix and \w+:
\* back_to_ toggle_setting:
WordPrefixes ==
  {<<98, 97, 99, 107, 95, 116, 111, 95>>,
   <<116, 111, 103, 103, 108, 101, 95, 115, 101, 116, 116, 105, 110, 103, 58>>}

\* a prefix and \d+:
\* use_tpl: continue_tpl: delete_tpl: confirm_delete_template:
\* edit_tpl_threshold: vote_option: admin_setperm: admin_revoke:
\* admin_delete: admin_confirm_delete: confirm_delete:
NumberPrefixes ==
  {<<117, 115, 101, 95, 116, 112, 108, 58>>,
   <<99, 111, 110, 116, 105, 110, 117, 101, 95, 116, 112, 108, 58>>,
   <<100, 101, 108, 101, 116, 101, 95, 116, 112, 108, 58>>,
   <<99, 111, 110, 102, 105, 114, 109, 95, 100, 101, 108, 101, 116, 101, 95, 116, 101, 109, 112, 108, 97, 116, 101, 58>>,
   <<101, 100, 105, 116, 95, 116, 112, 108, 95, 116, 104, 114, 101, 115, 104, 111, 108, 100, 58>>,
   <<118, 111, 116, 101, 95, 111, 112, 116, 105, 111, 110, 58>>,
   <<97, 100, 109, 105, 110, 95, 115, 101, 116, 112, 101, 114, 109, 58>>,
   <<97, 100, 109, 105, 110, 95, 114, 101, 118, 111, 107, 101, 58>>,
   <<97, 100, 109, 105, 110, 95, 100, 101, 108, 101, 116, 101, 58>>,
   <<97, 100, 109, 105, 110, 95, 99, 111, 110, 102, 105, 114, 109, 95, 100, 101, 108, 101, 116, 101, 58>>,
   <<99, 111, 110, 102, 105, 114, 109, 95, 100, 101, 108, 101, 116, 101, 58>>}

\* a prefix and [a-f0-9-]{36}:
\* close_poll: edit_poll: delete_poll: confirm_delete_poll:
\* edit_poll_question: edit_poll_options: show_poll: show_closed_poll:
\* cancel:
UuidPrefixes ==
  {<<99, 108, 111, 115, 101, 95, 112, 111, 108, 108, 58>>,
   <<101, 100, 105, 116, 95, 112, 111, 108, 108, 58>>,
   <<100, 101, 108, 101, 116, 101, 95, 112, 111, 108, 108, 58>>,
   <<99, 111, 110, 102, 105, 114, 109, 95, 100, 101, 108, 101, 116, 101, 95, 112, 111, 108, 108, 58>>,
   <<101, 100, 105, 116, 95, 112, 111, 108, 108, 95, 113, 117, 101, 115, 116, 105, 111, 110, 58>>,
   <<101, 100, 105, 116, 95, 112, 111, 108, 108, 95, 111, 112, 116, 105, 111, 110, 115, 58>>,
   <<115, 104, 111, 119, 95, 112, 111, 108, 108, 58>>,
   <<115, 104, 111, 119, 95, 99, 108, 111, 115, 101, 100, 95, 112, 111, 108, 108, 58>>,
   <<99, 97, 110, 99, 101, 108, 58>>}

\* a prefix and a log level:
\* admin_clear_logs: admin_view_logs: admin_toggle_logs:
LevelPrefixes ==
  {<<97, 100, 109, 105, 110, 95, 99, 108, 101, 97, 114, 95, 108, 111, 103, 115, 58>>,
   <<97, 100, 109, 105, 110, 95, 118, 105, 101, 119, 95, 108, 111, 103, 115, 58>>,
   <<97, 100, 109, 105, 110, 95, 116, 111, 103, 103, 108, 101, 95, 108, 111, 103, 115, 58>>}

\* debug info warning error critical
LogLevels ==
  {<<100, 101, 98, 117, 103>>,
   <<105, 110, 102, 111>>,
   <<119, 97, 114, 110, 105, 110, 103>>,
   <<101, 114, 114, 111, 114>>,
   <<99, 114, 105, 116, 105, 99, 97, 108>>}

\* use create admin
GrantedPermissions ==
  {<<117, 115, 101>>,
   <<99, 114, 101, 97, 116, 101>>,
   <<97, 100, 109, 105, 110>>}

TK_vote == <<118, 111, 116, 101, 58>>                   \* vote:
TK_admin_perm_select == <<97, 100, 109, 105, 110, 95, 112, 101, 114, 109, 95, 115, 101, 108, 101, 99, 116, 58>>  \* admin_perm_select:
TK_create_simple == <<99, 114, 101, 97, 116, 101, 95, 115, 105, 109, 112, 108, 101>>  \* create_simple
TK_continue_tpl == <<99, 111, 110, 116, 105, 110, 117, 101, 95, 116, 112, 108, 58>>  \* continue_tpl:
TK_confirm_delete_template == <<99, 111, 110, 102, 105, 114, 109, 95, 100, 101, 108, 101, 116, 101, 95, 116, 101, 109, 112, 108, 97, 116, 101, 58>>  \* confirm_delete_template:
TK_admin_confirm_delete == <<97, 100, 109, 105, 110, 95, 99, 111, 110, 102, 105, 114, 109, 95, 100, 101, 108, 101, 116, 101, 58>>  \* admin_confirm_delete:
TK_admin_ == <<97, 100, 109, 105, 110, 95>>  \* admin_

\* re.match of the anchored patterns; $ also matches before a newline that
\* ends the text
validate_callback_data_Any(data) == TRUE

validate_callback_data(data) ==
  /\ data # <<>>
  /\ Len(data) <= 100
  /\ LET body == IF data[Len(data)] = 10 THEN SubSeq(data, 1, Len(data) - 1) ELSE data
         numbered(rest) == rest # <<>> /\ AllIn(rest, DigitChars)
         vote == After(body, TK_vote)
         select == SplitOn(After(body, TK_admin_perm_select), 58)
     IN  \/ body \in ExactTokens
         \/ \E p \in WordPrefixes :
              IsPrefix(p, body) /\ After(body, p) # <<>> /\ AllIn(After(body, p), WordChars)
         \/ \E p \in NumberPrefixes : IsPrefix(p, body) /\ numbered(After(body, p))
         \/ \E p \in UuidPrefixes :
              IsPrefix(p, body) /\ Len(After(body, p)) = 36 /\ AllIn(After(body, p), UuidChars)
         \/ /\ IsPrefix(TK_vote, body)
            /\ Len(vote) > 37
            /\ AllIn(SubSeq(vote, 1, 36), UuidChars)
            /\ vote[37] = 58
            /\ AllIn(SubSeq(vote, 38, Len(vote)), DigitChars)
         \/ /\ IsPrefix(TK_admin_perm_select, body)
            /\ Len(select) = 2
            /\ numbered(select[1])
            /\ select[2] \in GrantedPermissions
         \/ \E p \in LevelPrefixes : IsPrefix(p, body) /\ After(body, p) \in LogLevels

\* the row an id taken from a token selects: none when it is no number
IdOf(text) == LET n == ParseInt(text) IN IF n = <<>> THEN 0 ELSE n[1]

\* a branch that writes nothing, the last else, or int() raising in a branch:
\* the sender is registered and that is all
registered_only(user_id) ==
  /\ users' = add_user(users, user_id)
  /\ UNCHANGED <<polls, poll_votes, keyboards, templates, template_sessions,
                 user_states, user_settings, issued>>

\* callback_handler after its flood check: the allow-list, add_user, then the
\* branch of the token; the branches are taken in the order of the code
callback_handler(user_id, data) ==
  IF ~validate_callback_data(data) THEN UNCHANGED dbvars
  ELSE IF IsPrefix(TK_admin_, data)
  THEN IF IsPrefix(TK_admin_confirm_delete, data) /\ ParseInt(SplitOn(data, 58)[2]) # <<>>
       THEN admin_confirm_delete(user_id, IdOf(SplitOn(data, 58)[2]))
       ELSE registered_only(user_id)
  ELSE IF IsPrefix(TK_confirm_delete_template, data)
  THEN confirm_delete_template(user_id, IdOf(After(data, TK_confirm_delete_template)))
  ELSE IF IsPrefix(TK_continue_tpl, data)
  THEN continue_tpl(user_id, IdOf(After(data, TK_continue_tpl)))
  ELSE IF data = TK_create_simple
  THEN create_simple(user_id)
  ELSE registered_only(user_id)

(***************************************************************************)
(* Buttons pressed with tokens on the allow-list and with free-form ones   *)
(***************************************************************************)

\* tokens the patterns accept, as buttons of the bot carry them; the second is
\* accepted with its newline and has no branch
AllowedTokens ==
  {<<99, 114, 101, 97, 116, 101, 95, 115, 105, 109, 112, 108, 101>>,  \* create_simple
   <<99, 114, 101, 97, 116, 101, 95, 115, 105, 109, 112, 108, 101, 10>>,  \* create_simple\n
   <<99, 111, 110, 116, 105, 110, 117, 101, 95, 116, 112, 108, 58, 49>>,  \* continue_tpl:1
   <<99, 111, 110, 102, 105, 114, 109, 95, 100, 101, 108, 101, 116, 101, 95, 116, 101, 109, 112, 108, 97, 116, 101, 58, 49>>,  \* confirm_delete_template:1
   <<97, 100, 109, 105, 110, 95, 99, 111, 110, 102, 105, 114, 109, 95, 100, 101, 108, 101, 116, 101, 58, 51>>,  \* admin_confirm_delete:3
   <<104, 101, 108, 112>>}  \* help

\* a token of greatest length and one longer, of the pattern back_to_\w+
LongestToken == <<98, 97, 99, 107, 95, 116, 111, 95>> \o Repeat(97, 92)
OverlongToken == <<98, 97, 99, 107, 95, 116, 111, 95>> \o Repeat(97, 93)

\* free-form values: unknown words, wrong case, trailing text, ids that are
\* no numbers, the empty text and the overlong token
FreeFormTokens ==
  {<<100, 114, 111, 112>>,  \* drop
   <<99, 114, 101, 97, 116, 101, 95, 115, 105, 109, 112, 108, 101, 32>>,  \* create_simple 
   <<67, 114, 101, 97, 116, 101, 95, 115, 105, 109, 112, 108, 101>>,  \* Create_simple
   <<99, 111, 110, 116, 105, 110, 117, 101, 95, 116, 112, 108, 58>>,  \* continue_tpl:
   <<99, 111, 110, 116, 105, 110, 117, 101, 95, 116, 112, 108, 58, 120>>,  \* continue_tpl:x
   <<99, 111, 110, 116, 105, 110, 117, 101, 95, 116, 112, 108, 58, 45, 49>>,  \* continue_tpl:-1
   <<99, 111, 110, 102, 105, 114, 109, 95, 100, 101, 108, 101, 116, 101, 95, 116, 101, 109, 112, 108, 97, 116, 101, 58, 49, 59, 49>>,  \* confirm_delete_template:1;1
   <<97, 100, 109, 105, 110, 95, 99, 111, 110, 102, 105, 114, 109, 95, 100, 101, 108, 101, 116, 101, 58, 51, 58, 51>>,  \* admin_confirm_delete:3:3
   <<97, 100, 109, 105, 110, 95, 99, 111, 110, 102, 105, 114, 109, 95, 100, 101, 108, 101, 116, 101, 58, 32, 51>>,  \* admin_confirm_delete: 3
   <<118, 111, 116, 101, 58, 49, 58, 48>>,  \* vote:1:0
   <<116, 111, 103, 103, 108, 101, 95, 115, 101, 116, 116, 105, 110, 103, 58>>} \cup {<<>>, OverlongToken}  \* toggle_setting:

CallbackTokens == AllowedTokens \cup {LongestToken} \cup FreeFormTokens

\* the presses of one user that are followed within a minute
MaxPresses == 2

TokenPressed(u, data) ==
  /\ Len(inbound[u]) < MaxPresses
  /\ Received(u)
  /\ flood_checked(u, callback_handler(u, data))
  /\ StateStamped
  /\ UNCHANGED <<typevars, poll_age, session_age>>

NextTokens == \E u \in Users, data \in CallbackTokens : TokenPressed(u, data)

SpecTokens == Init /\ [][NextTokens]_vars
(***************************************************************************)
(* Vote callbacks of several users in progress at once: the handler in the *)
(* pieces its awaits cut it into                                           *)
(***************************************************************************)

\* every caller is probed for chat membership
can_vote_directly_Never(U, user_id) == FALSE

\* user_perms in ["use", "create", "admin"]: no await between the status
\* read and the INSERT
can_vote_directly(U, user_id) == get_permissions(U, user_id) \in {"use", "create", "admin"}

SuspendedAt(at, poll_id, option_id) == [at |-> at, poll_id |-> poll_id, option_id |-> option_id]

\* format_poll_message and the edit of the message, which end the handler
vote_shown(P, V, user_id, poll_id) ==
  /\ \E o \in HeadOptions(V, poll_id) :
       polls' = format_poll_message(P, V, user_settings, poll_id, TRUE, user_id, o)
  /\ suspended' = [suspended EXCEPT ![user_id] = NotSuspended]

\* INSERT OR REPLACE, the total_voters update and the automatic close, in one
\* piece; the creator of a poll closed by another user's vote is notified
\* before the message is redrawn
vote_recorded(user_id, poll_id, option_id) ==
  LET V1 == InsertOrReplaceVote(poll_votes, poll_id, user_id, option_id)
      P1 == AutoClose(UpdateTotalVoters(polls, V1, poll_id), poll_id)
      auto_closed == P1[poll_id].max_participants > 0 /\ P1[poll_id].status = "closed"
  IN  /\ poll_votes' = V1
      /\ IF auto_closed /\ P1[poll_id].creator_id # user_id
         THEN /\ polls' = P1
              /\ suspended' = [suspended EXCEPT ![user_id] = SuspendedAt("notify", poll_id, option_id)]
              /\ UNCHANGED keyboards
         ELSE /\ vote_shown(P1, V1, user_id, poll_id)
              /\ keyboards' = RenderKeyboard(keyboards, P1, poll_id)

\* callback_handler up to the first await of vote_handler, query.answer()
vote_pressed(user_id, poll_id, option_id) ==
  /\ suspended[user_id].at = "none"
  /\ users' = add_user(users, user_id)
  /\ suspended' = [suspended EXCEPT ![user_id] = SuspendedAt("answer", poll_id, option_id)]
  /\ UNCHANGED <<polls, poll_votes, keyboards, templates, template_sessions,
                 user_states, user_settings, issued>>

\* vote_handler from the await it is suspended at to its next await that is
\* followed by a read or a write, or to its end
vote_resumed(user_id, chat_member) ==
  LET at == suspended[user_id].at
      poll_id == suspended[user_id].poll_id
      option_id == suspended[user_id].option_id
  IN  /\ at # "none"
      /\ IF poll_id \notin DOMAIN polls
         THEN /\ suspended' = [suspended EXCEPT ![user_id] = NotSuspended]
              /\ UNCHANGED <<polls, poll_votes, keyboards>>
         ELSE IF at = "notify"
         THEN /\ vote_shown(polls, poll_votes, user_id, poll_id)
              /\ keyboards' = RenderKeyboard(keyboards, polls, poll_id)
              /\ UNCHANGED poll_votes
         ELSE IF at = "membership"
         THEN IF is_user_in_chat(chat_member)
              THEN vote_recorded(user_id, poll_id, option_id)
              ELSE /\ suspended' = [suspended EXCEPT ![user_id] = NotSuspended]
                   /\ UNCHANGED <<polls, poll_votes, keyboards>>
         ELSE IF polls[poll_id].status # "active"
         THEN /\ vote_shown(polls, poll_votes, user_id, poll_id)
              /\ UNCHANGED <<poll_votes, keyboards>>
         ELSE IF can_vote_directly(users, user_id)
         THEN vote_recorded(user_id, poll_id, option_id)
         ELSE /\ suspended' = [suspended EXCEPT ![user_id] = SuspendedAt("membership", poll_id, option_id)]
              /\ UNCHANGED <<polls, poll_votes, keyboards>>
      /\ UNCHANGED <<users, templates, template_sessions, user_states, user_settings, issued>>

VotePressed ==
  \E u \in Users, p \in DOMAIN polls : \E o \in VoteButtons(p) : vote_pressed(u, p, o)

VoteResumed ==
  \E u \in Users :
    \E chat_member \in IF suspended[u].at = "membership" THEN ChatMemberOutcomes ELSE {"member"} :
      vote_resumed(u, chat_member)

\* the creator makes one poll through the wizard; votes on it are pressed and
\* resumed in any order
NextConcurrent ==
  /\ UNCHANGED <<dvt_in, dvt_out, call_in, call_out, clockvars>>
  /\ \/ VotePressed
     \/ VoteResumed
     \/ /\ UNCHANGED suspended
        /\ \/ \E u \in Creators : issued < MaxPollsVoting /\ create_simple(u)
           \/ FinishPollCreation
           \/ \E u \in Creators :
                \E t \in TypedTexts(u, {T_0, T_2}, {T_50}, {}) : text_handler(u, t)

SpecConcurrent == Init /\ [][NextConcurrent]_vars
(***************************************************************************)
(* Permission changes, with the sender of every update on record           *)
(***************************************************************************)

\* the updates of one user that are followed
MaxCommands == 2

\* the update of the sender is noted; the handler looks at the sender only
\* where its code does
Sent(sender, handled) ==
  /\ Len(inbound[sender]) < MaxCommands
  /\ Received(sender)
  /\ handled
  /\ UNCHANGED <<typevars, poll_age, session_age, state_age, limitervars, granted>>

GrantSent(sender, target, new_permissions) == Sent(sender, grant_command(target, new_permissions))

RevokeSent(sender, target) == Sent(sender, revoke_command(target))

PermSelectPressed(sender, target, new_perm) == Sent(sender, admin_perm_select(sender, target, new_perm))

StartSent(sender) == Sent(sender, start_command(sender))

UserDeleted(sender, target) == Sent(sender, handle_user_deletion(sender, target))

NextGrants ==
  \/ \E sender \in Users, target \in Users, p \in {"use", "create", "admin"} :
       GrantSent(sender, target, p)
  \/ \E sender \in Users, target \in Users : RevokeSent(sender, target)
  \/ \E sender \in Users, target \in Users, p \in {"use", "create", "admin"} :
       PermSelectPressed(sender, target, p)
  \/ \E sender \in Users : StartSent(sender)
  \/ \E sender \in Users, target \in Targets : UserDeleted(sender, target)

SpecGrants == Init /\ [][NextGrants]_vars
(***************************************************************************)
(* Lifecycle: a poll is made, voted on, edited and closed while the clock  *)
(* runs and the periodic sweep comes round                                 *)
(***************************************************************************)

NextLifecycle ==
  \/ Stamped(Vote({3}))
  \/ Stamped(ClosePoll)
  \/ Stamped(EditOptions)
  \/ Stamped(\E u \in Creators : issued < MaxPollsVoting /\ create_simple(u))
  \/ Stamped(FinishPollCreation)
  \/ Stamped(\E u \in Creators :
               \E t \in TypedTexts(u, {T_0}, {T_50}, {}) : text_handler(u, t))
  \/ Tick
  \/ cleanup_old_data

SpecLifecycle == Init /\ [][NextLifecycle]_vars
(***************************************************************************)
(* determine_voting_type applied to bounded option lists                   *)
(***************************************************************************)

MaxTypeOptions == 4

TypeLexicon ==
  {T_Za, T_Protiv, T_Vozderzhalsya, T_A, T_B, T_C, T_D,
   T_za_dot, T_blank}

InitType ==
  /\ InitDb
  /\ InitClock
  /\ dvt_in \in UNION {[1..k -> TypeLexicon] : k \in 0..MaxTypeOptions}
  /\ dvt_out = "unset"
  /\ call_in = <<>>
  /\ call_out = <<>>

CallDetermineVotingType ==
  /\ dvt_out = "unset"
  /\ dvt_out' = determine_voting_type(dvt_in)
  /\ UNCHANGED <<dvt_in, call_in, call_out, suspended>>
  /\ UNCHANGED <<dbvars, clockvars>>

NextType == CallDetermineVotingType

SpecType == InitType /\ [][NextType]_vars


(***************************************************************************)
(* substitute_variables applied to bounded texts and values                *)
(***************************************************************************)

MaxTextLen == 5

\* { } a b [
TextAlphabet == {123, 125, 97, 98, 91}

\* the dict values, in insertion order
ValueDicts ==
  {<<>>, <<<<T_a, T_1>>>>, <<<<T_a, T_ref_b>>>>, <<<<T_a, T_ref_b>>, <<T_b, T_1>>>>}

InitSubstitute ==
  /\ InitDb
  /\ InitClock
  /\ dvt_in = <<>>
  /\ dvt_out = "unset"
  /\ call_in \in [text : UNION {[1..k -> TextAlphabet] : k \in 0..MaxTextLen},
                  values : ValueDicts]
  /\ call_out = <<>>

\* the function returns on every path: no statement of it can raise on a
\* str and a dict of str
CallSubstituteVariables ==
  /\ call_out = <<>>
  /\ call_out' = <<substitute_variables(call_in.text, call_in.values)>>
  /\ UNCHANGED <<call_in, dvt_in, dvt_out, suspended, dbvars, clockvars>>

NextSubstitute == CallSubstituteVariables

SpecSubstitute == InitSubstitute /\ [][NextSubstitute]_vars

(***************************************************************************)
(* create_poll applied to questions and option lists at and beyond the     *)
(* limits, and called again by the same and by another creator             *)
(***************************************************************************)

\* empty, blank, short, of the greatest length, one longer
PollQuestions ==
  {<<>>, T_blank, T_Question, Repeat(81, MAX_POLL_QUESTION), Repeat(81, MAX_POLL_QUESTION + 1)}

\* an option of the greatest length, one longer, and one that is longer only
\* by two markdown characters
LongOption == Repeat(97, MAX_POLL_OPTION)
MarkedOption == <<42, 42>> \o LongOption

PollOptionLists ==
  {<<>>, <<T_Da>>, <<T_Da, T_Net>>, <<T_Da, <<>>>>, <<T_Da, T_blank>>, <<T_Da, <<42>>>>,
   <<T_Da, LongOption>>, <<T_Da, LongOption \o <<97>>>>, <<T_Da, MarkedOption>>,
   <<T_Da, T_Net, T_A>>,
   Repeat(T_A, max_poll_options), Repeat(T_A, max_poll_options + 1)}

InitCreatePoll ==
  /\ InitDb
  /\ InitClock
  /\ dvt_in = <<>>
  /\ dvt_out = "unset"
  /\ call_in \in [question : PollQuestions, options : PollOptionLists, creator_id : Creators]
  /\ call_out = <<>>

\* the call with the arguments drawn, on a table without polls; call_out is
\* what create_poll returns
CallCreatePoll ==
  /\ call_out = <<>>
  /\ create_poll(call_in.question, call_in.options, call_in.creator_id, 50, 0, FALSE)
  /\ call_out' = <<DOMAIN polls' # DOMAIN polls>>
  /\ UNCHANGED <<call_in, dvt_in, dvt_out, suspended, clockvars>>

NextCreatePoll == CallCreatePoll

SpecCreatePoll == InitCreatePoll /\ [][NextCreatePoll]_vars

\* the same question and another one, asked by the creator and by the admin
RepeatedQuestions == {T_Question, T_A}
RepeatingCreators == {1, 2}

CreatePollAgain(question, creator_id) ==
  /\ issued < MaxPolls
  /\ \E existing \in DuplicateFound(polls, question, creator_id) :
       create_poll(question, <<T_Da, T_Net>>, creator_id, 50, 0, existing)
  /\ call_in' = [question |-> question, creator_id |-> creator_id,
                 existing |-> \E p \in DOMAIN polls : /\ polls[p].creator_id = creator_id
                                                     /\ polls[p].question = question
                                                     /\ polls[p].recent]
  /\ call_out' = <<DOMAIN polls' # DOMAIN polls>>
  /\ UNCHANGED <<dvt_in, dvt_out, suspended, clockvars>>

NextDuplicates ==
  \/ \E q \in RepeatedQuestions, c \in RepeatingCreators : CreatePollAgain(q, c)
  \/ HourPasses /\ UNCHANGED <<typevars, clockvars>>
  \/ \E p \in DOMAIN polls : confirm_delete_poll_handler(polls[p].creator_id, p)
                             /\ UNCHANGED <<typevars, clockvars>>

SpecDuplicates == Init /\ [][NextDuplicates]_vars
(***************************************************************************)
(* error_handler: the wrapper around every handler                         *)
(***************************************************************************)

\* what one await of the wrapped handler does: it returns, or raises an
\* exception of one of these classes
HandlerOutcomes == {"returns", "RetryAfter", "TimedOut", "NetworkError", "TelegramError", "Exception"}

\* the classes of telegram.error: each class with its bases
Bases(cls) ==
  CASE cls = "RetryAfter" -> {"RetryAfter", "TelegramError", "Exception"}
    [] cls = "TimedOut" -> {"TimedOut", "NetworkError", "TelegramError", "Exception"}
    [] cls = "NetworkError" -> {"NetworkError", "TelegramError", "Exception"}
    [] cls = "TelegramError" -> {"TelegramError", "Exception"}
    [] OTHER -> {"Exception"}

\* safe_send_error_message: whatever sending raises is logged and dropped
safe_send_error_message(send_fails) == [raised |-> "none", replied |-> ~send_fails]

\* wrapper of error_handler: first is the outcome of the call in the try
\* block, second the outcome of the call made again in the RetryAfter clause,
\* which no except clause covers
wrapper(first, second, send_fails) ==
  IF first = "returns" THEN [raised |-> "none", replied |-> FALSE]
  ELSE IF "RetryAfter" \in Bases(first)
  THEN [raised |-> IF second = "returns" THEN "none" ELSE second, replied |-> FALSE]
  ELSE safe_send_error_message(send_fails)

InitErrors ==
  /\ InitDb
  /\ InitClock
  /\ dvt_in = <<>>
  /\ dvt_out = "unset"
  /\ call_in \in [first : HandlerOutcomes, second : HandlerOutcomes, send_fails : BOOLEAN]
  /\ call_out = <<>>

CallWrapper ==
  /\ call_out = <<>>
  /\ call_out' = <<wrapper(call_in.first, call_in.second, call_in.send_fails)>>
  /\ UNCHANGED <<call_in, dvt_in, dvt_out, suspended, dbvars, clockvars>>

NextErrors == CallWrapper

SpecErrors == InitErrors /\ [][NextErrors]_vars
(***************************************************************************)
(* The classification of determine_voting_type against the affirmative     *)
(* test of check_decision_status, on polls made from bounded option lists  *)
(***************************************************************************)

\* the options a poll is made of here
MaxClassifiedOptions == 3

ClassifiedLexicon == {T_Za, T_Protiv, T_Vozderzhalsya, T_Odobryayu, T_Otklonyayu, T_A}

\* the class determine_voting_type puts one option of a list in: the option
\* is normalised as options_lower does and tried against the three keyword
\* lists in turn
Classified(option) ==
  LET ol == options_lower(<<option>>)
  IN  IF ol = <<>> THEN "none"
      ELSE IF positive_match(ol[1]) THEN "affirmative"
      ELSE IF negative_match(ol[1]) THEN "negative"
      ELSE IF abstain_match(ol[1]) THEN "abstain"
      ELSE "none"

InitAffirmative ==
  /\ InitDb
  /\ InitClock
  /\ dvt_in = <<>>
  /\ dvt_out = "unset"
  /\ call_in \in UNION {[1..k -> ClassifiedLexicon] : k \in 2..MaxClassifiedOptions}
  /\ call_out = <<>>

\* the creator makes the poll of the drawn options, without a cap
CreateClassifiedPoll ==
  /\ issued = 0
  /\ create_poll(T_Question, call_in, 2, 50, 0, FALSE)
  /\ UNCHANGED <<typevars, clockvars>>

NextAffirmative ==
  \/ CreateClassifiedPoll
  \/ UNCHANGED <<typevars, clockvars>> /\ Vote({1, 3})
  \/ UNCHANGED <<typevars, clockvars>> /\ ClosePoll

SpecAffirmative == InitAffirmative /\ [][NextAffirmative]_vars
(***************************************************************************)
(* Templates with placeholders in their options, instantiated              *)
(***************************************************************************)

TemplateQuestions == {T_Question, T_TemplateQuestion}

TemplateOptionLists == {<<T_Da, T_Net>>, <<T_ref_x, T_Net>>, <<T_ref_y, T_Net>>}

\* the template row as the creation wizard leaves it: the variables are
\* extracted from the question when it is typed and carried unchanged to the
\* INSERT; the options are cleaned and joined
InitPlaceholders ==
  /\ users = [u \in Users |-> IF u = 1 THEN "admin" ELSE IF u = 2 THEN "create" ELSE "use"]
  /\ polls = EmptyTable
  /\ poll_votes = {}
  /\ keyboards = EmptyTable
  /\ \E question \in TemplateQuestions, options \in TemplateOptionLists :
       templates =
         [t \in {1} |->
            [question |-> question, options |-> JoinBar(CleanAll(options)),
             variables |-> extract_variables(question), threshold |-> 50,
             max_participants |-> 0, created_by |-> 2]]
  /\ template_sessions = EmptyTable
  /\ user_states = [u \in Users |-> IdleState]
  /\ user_settings = EmptyTable
  /\ issued = 0
  /\ InitClock
  /\ dvt_in = <<>>
  /\ dvt_out = "unset"
  /\ call_in = <<>>
  /\ call_out = <<>>

\* what the creator types: plain values for the variables, then the cap, the
\* threshold and the decision number
PlaceholderTexts(user_id) ==
  LET state == user_states[user_id].state
  IN  IF state \notin SessionExempt /\ user_id \in DOMAIN template_sessions
      THEN {T_1, T_2}
      ELSE IF state = "waiting_max_participants" THEN {T_0, T_2}
      ELSE IF state = "waiting_template_poll_threshold" THEN {T_30, T_50}
      ELSE IF state = "waiting_decision_number_input" THEN {T_1}
      ELSE {}

NextPlaceholders ==
  /\ UNCHANGED <<typevars, clockvars>>
  /\ \/ \E u \in Creators, t \in DOMAIN templates :
          issued < MaxPolls /\ continue_tpl(u, t)
     \/ \E u \in Creators : \E t \in PlaceholderTexts(u) : text_handler(u, t)
     \/ \E u \in Creators : toggle_setting(u, "show_decision_numbers")
     \/ \E u \in Creators :
          /\ user_states[u].state = "waiting_decision_number"
          /\ issued < MaxPolls
          /\ enter_decision_number(u)
     \/ \E u \in Creators :
          /\ user_states[u].state = "waiting_decision_number"
          /\ issued < MaxPolls
          /\ next_decision_number(u)

SpecPlaceholders == InitPlaceholders /\ [][NextPlaceholders]_vars
\* C10: determine_voting_type returns, from the number n of distinct
\* normalized options and the keyword classes matched: binary if n = 2 with
\* affirmative and negative; approval if n = 3 with all three classes;
\* choice if n > 3; otherwise approval if all three classes are matched,
\* else binary if affirmative and negative are matched, else choice.
\* [Za, Protiv] is binary, [Za, Protiv, Vozderzhalsya] is approval and
\* [A, B, C, D] is choice.
C10_TypeRules ==
  dvt_out # "unset" =>
    LET ol == options_lower(dvt_in)
        n == Len(ol)
        aff == \E i \in 1..n : positive_match(ol[i])
        neg == \E i \in 1..n : negative_match(ol[i])
        abst == \E i \in 1..n : abstain_match(ol[i])
    IN  /\ (n = 2 /\ aff /\ neg) => dvt_out = "binary"
        /\ (~(n = 2 /\ aff /\ neg) /\ n = 3 /\ aff /\ neg /\ abst) => dvt_out = "approval"
        /\ (~(n = 2 /\ aff /\ neg) /\ n > 3) => dvt_out = "choice"
        /\ (n < 2 \/ (n = 2 /\ ~(aff /\ neg)) \/ (n = 3 /\ ~(aff /\ neg /\ abst))) =>
             dvt_out = IF aff /\ neg /\ abst THEN "approval"
                       ELSE IF aff /\ neg THEN "binary"
                       ELSE "choice"
        /\ dvt_in = <<T_Za, T_Protiv>> => dvt_out = "binary"
        /\ dvt_in = <<T_Za, T_Protiv, T_Vozderzhalsya>> => dvt_out = "approval"
        /\ dvt_in = <<T_A, T_B, T_C, T_D>> => dvt_out = "choice"

\* more than three distinct options that match all three classes were typed
C10_Witness ==
  /\ dvt_out = "choice"
  /\ Len(options_lower(dvt_in)) > 3
  /\ \E i \in 1..Len(dvt_in) : positive_match(Lower(dvt_in[i]))
  /\ \E i \in 1..Len(dvt_in) : negative_match(Lower(dvt_in[i]))
  /\ \E i \in 1..Len(dvt_in) : abstain_match(Lower(dvt_in[i]))

(***************************************************************************)
(* Claims about votes                                                      *)
(***************************************************************************)

\* C1: in every reachable state there is at most one vote row per (poll,
\* voter), so a poll voted on by N distinct voters holds exactly N rows; and
\* a vote cast on an active poll replaces the voter's earlier row by a row
\* with the option just voted for, leaving the other voters' rows alone
\* (last vote wins, nothing is appended).
C1_OneVotePerVoter ==
  /\ [](\A r1 \in poll_votes, r2 \in poll_votes :
          (r1.poll_id = r2.poll_id /\ r1.user_id = r2.user_id) => r1 = r2)
  /\ [](\A p \in DOMAIN polls :
          Cardinality(VotesOf(poll_votes, p)) = DistinctVoters(poll_votes, p))
  /\ [][\A u \in Users, p \in DOMAIN polls :
          \A o \in VoteButtons(p) :
            (polls[p].status = "active" /\ vote_handler(u, p, o)) =>
              VotesOf(poll_votes', p) =
                {r \in VotesOf(poll_votes, p) : r.user_id # u}
                  \cup {[poll_id |-> p, user_id |-> u, option_id |-> o]}]_vars

\* three distinct voters have voted on one poll and it holds three rows
C1_Witness ==
  \E p \in DOMAIN polls :
    /\ polls[p].total_voters = 3
    /\ Cardinality(VotesOf(poll_votes, p)) = 3
    /\ \A u \in Users : \E r \in VotesOf(poll_votes, p) : r.user_id = u

\* C2: on an active poll with a participant cap c > 0 every vote is recorded,
\* and the vote that brings the number of distinct voters to c leaves the
\* poll closed in the same call; an active capped poll therefore never holds
\* c voters; a closed poll stays closed and no step, a later vote included,
\* changes its votes.
C2_CapClosesPoll ==
  /\ [](\A p \in DOMAIN polls :
          (polls[p].status = "active" /\ polls[p].max_participants > 0)
            => DistinctVoters(poll_votes, p) < polls[p].max_participants)
  /\ [][/\ \A u \in Users, p \in DOMAIN polls :
            \A o \in VoteButtons(p) :
              (/\ polls[p].status = "active"
               /\ polls[p].max_participants > 0
               /\ vote_handler(u, p, o))
                => /\ [poll_id |-> p, user_id |-> u, option_id |-> o]
                        \in poll_votes'
                   /\ DistinctVoters(poll_votes', p) = polls[p].max_participants
                        => polls'[p].status = "closed"
        /\ \A p \in DOMAIN polls :
              polls[p].status = "closed"
                => /\ VotesOf(poll_votes', p) = VotesOf(poll_votes, p)
                   /\ p \in DOMAIN polls' => polls'[p].status = "closed"]_vars

\* a poll with cap 2 was closed by its second voter
C2_Witness ==
  \E p \in DOMAIN polls :
    /\ polls[p].max_participants = 2
    /\ polls[p].status = "closed"
    /\ polls[p].total_voters = 2
    /\ DistinctVoters(poll_votes, p) = 2

(***************************************************************************)
(* Claims about the decision status                                        *)
(***************************************************************************)

\* C3 as stated: for a binary or approval poll with votes and one
\* affirmative option, the status is accepted exactly when that option's
\* share of the base meets the threshold (for at least one order in which
\* the query may return tied options).
C3_AffirmativeShare ==
  \A p \in DOMAIN polls :
    \E h \in HeadOptions(poll_votes, p) :
      LET poll == polls[p]
          options == SplitBar(poll.options)
          aff == {i \in 1..Len(options) : is_positive_option(options[i])}
          base == IF poll.max_participants > 0 THEN poll.max_participants
                  ELSE poll.total_voters
      IN  (/\ poll.voting_type \in {"binary", "approval"}
           /\ VotesOf(poll_votes, p) # {}
           /\ Cardinality(aff) = 1)
            => LET a == CHOOSE i \in aff : TRUE
                   v == VoteCount(poll_votes, p, a - 1)
               IN  (check_decision_status(polls, poll_votes, p, h) = "accepted")
                     <=> IF poll.voting_type = "binary"
                         THEN 100 * v >= poll.threshold * base
                         ELSE 200 * v >= (2 * poll.threshold - 1) * base

\* C3: for a binary or approval poll with votes, with v the count of the
\* option that heads the vote counts and base the cap if positive, else
\* total_voters, the status is accepted exactly when that option is one of
\* the poll's current options, its text is affirmative, and v / base * 100
\* is at least the threshold (binary) or the threshold less 0.5 (approval);
\* [Da, Net] with threshold 50, no cap and votes Da, Da, Net is accepted.
C3_LeadingAffirmativeShare ==
  \A p \in DOMAIN polls :
    \A h \in HeadOptions(poll_votes, p) :
      LET poll == polls[p]
          options == SplitBar(poll.options)
          v == VoteCount(poll_votes, p, h)
          base == IF poll.max_participants > 0 THEN poll.max_participants
                  ELSE poll.total_voters
          status == check_decision_status(polls, poll_votes, p, h)
      IN  /\ (/\ poll.voting_type \in {"binary", "approval"}
              /\ VotesOf(poll_votes, p) # {})
               => ((status = "accepted")
                     <=> /\ h < Len(options)
                         /\ is_positive_option(options[h + 1])
                         /\ IF poll.voting_type = "binary"
                            THEN 100 * v >= poll.threshold * base
                            ELSE 200 * v >= (2 * poll.threshold - 1) * base)
          /\ (/\ options = <<T_Da, T_Net>>
              /\ poll.voting_type = "binary"
              /\ poll.threshold = 50
              /\ poll.max_participants = 0
              /\ VoteCount(poll_votes, p, 0) = 2
              /\ VoteCount(poll_votes, p, 1) = 1)
               => status = "accepted"

\* the poll [Da, Net] with threshold 50 and no cap after the votes Da, Da, Net
C3_Witness ==
  \E p \in DOMAIN polls :
    /\ SplitBar(polls[p].options) = <<T_Da, T_Net>>
    /\ polls[p].voting_type = "binary"
    /\ polls[p].threshold = 50
    /\ polls[p].max_participants = 0
    /\ polls[p].total_voters = 3
    /\ VoteCount(poll_votes, p, 0) = 2
    /\ VoteCount(poll_votes, p, 1) = 1
    /\ check_decision_status(polls, poll_votes, p, 0) = "accepted"

\* C4 as stated: a poll with votes whose status is not accepted is rejected
\* exactly when it has at least 3 voters or is closed, and pending
\* otherwise; a poll without votes is pending.
C4_RejectedOrPending ==
  \A p \in DOMAIN polls :
    \A h \in HeadOptions(poll_votes, p) :
      LET status == check_decision_status(polls, poll_votes, p, h)
      IN  IF VotesOf(poll_votes, p) = {}
          THEN status = "pending"
          ELSE status # "accepted"
                 => status = IF polls[p].total_voters >= 3
                                \/ polls[p].status = "closed"
                             THEN "rejected" ELSE "pending"

\* C5: a binary poll is accepted only when the leading option's share of the
\* base is at least the threshold; an approval poll led by an affirmative
\* option is accepted as soon as the share is at least the threshold less
\* 0.5; and on the same votes, base and threshold the two types disagree
\* only when the share lies in [threshold - 0.5, threshold).
C5_HalfPointBand ==
  \A p \in DOMAIN polls :
    \A h \in HeadOptions(poll_votes, p) :
      LET poll == polls[p]
          options == SplitBar(poll.options)
          v == VoteCount(poll_votes, p, h)
          base == IF poll.max_participants > 0 THEN poll.max_participants
                  ELSE poll.total_voters
          binary == check_decision_status(
                      [polls EXCEPT ![p].voting_type = "binary"], poll_votes, p, h)
          approval == check_decision_status(
                      [polls EXCEPT ![p].voting_type = "approval"], poll_votes, p, h)
      IN  VotesOf(poll_votes, p) # {}
            => /\ binary = "accepted" => 100 * v >= poll.threshold * base
               /\ (/\ h < Len(options)
                   /\ is_positive_option(options[h + 1])
                   /\ 200 * v >= (2 * poll.threshold - 1) * base)
                    => approval = "accepted"
               /\ binary # approval
                    => /\ 200 * v >= (2 * poll.threshold - 1) * base
                       /\ 100 * v < poll.threshold * base

\* an approval poll accepted with a share inside the band (2 of 3 at
\* threshold 67), which the binary rule does not accept
C5_Witness ==
  \E p \in DOMAIN polls :
    \E h \in HeadOptions(poll_votes, p) :
      /\ polls[p].voting_type = "approval"
      /\ polls[p].threshold = 67
      /\ polls[p].total_voters = 3
      /\ VoteCount(poll_votes, p, h) = 2
      /\ check_decision_status(polls, poll_votes, p, h) = "accepted"
      /\ check_decision_status([polls EXCEPT ![p].voting_type = "binary"],
                               poll_votes, p, h) = "rejected"

\* C6 as stated: a choice poll with votes is accepted exactly when the
\* leading option's share of the base is at least the threshold less 0.5,
\* whatever the leading option's text.
C6_ChoicePlurality ==
  \A p \in DOMAIN polls :
    \A h \in HeadOptions(poll_votes, p) :
      LET poll == polls[p]
          v == VoteCount(poll_votes, p, h)
          base == IF poll.max_participants > 0 THEN poll.max_participants
                  ELSE poll.total_voters
      IN  (poll.voting_type = "choice" /\ VotesOf(poll_votes, p) # {})
            => ((check_decision_status(polls, poll_votes, p, h) = "accepted")
                  <=> 200 * v >= (2 * poll.threshold - 1) * base)

(***************************************************************************)
(* Claims about decision numbers                                           *)
(***************************************************************************)

\* C7 as stated: once a poll's decision number is stored, no step changes it.
C7_NumberNeverChanges ==
  [][\A p \in DOMAIN polls \cap DOMAIN polls' :
       polls[p].decision_number # <<>>
         => polls'[p].decision_number = polls[p].decision_number]_vars

\* C8 as stated: after a vote or a close whose recomputed status is accepted
\* or rejected the poll has a decision number, and a poll that has only ever
\* been pending (an active poll nobody has voted on) has none.
C8_NumberOnResolution ==
  /\ [][\A u \in Users, p \in DOMAIN polls :
          (/\ \/ \E o \in VoteButtons(p) : vote_handler(u, p, o)
              \/ close_poll_handler(u, p)
           /\ p \in DOMAIN polls'
           /\ \A h \in HeadOptions(poll_votes', p) :
                check_decision_status(polls', poll_votes', p, h)
                  \in {"accepted", "rejected"})
            => polls'[p].decision_number # <<>>]_vars
  /\ [](\A p \in DOMAIN polls :
          (polls[p].status = "active" /\ VotesOf(poll_votes, p) = {})
            => polls[p].decision_number = <<>>)

\* C9 as stated: a number given to a poll is greater than every number
\* stored before, and no two polls carry the same decision number.
C9_NumbersSequential ==
  /\ [][\A p \in DOMAIN polls' :
          (/\ polls'[p].decision_number # <<>>
           /\ p \in DOMAIN polls => polls[p].decision_number = <<>>)
            => \A q \in DOMAIN polls :
                 polls[q].decision_number # <<>>
                   => polls'[p].decision_number[1] > polls[q].decision_number[1]]_vars
  /\ [](\A p \in DOMAIN polls, q \in DOMAIN polls :
          (p # q /\ polls[p].decision_number # <<>>)
            => polls[p].decision_number # polls[q].decision_number)

(***************************************************************************)
(* Claims about closing and editing                                        *)
(***************************************************************************)

\* C11: a close request by the poll's creator or an admin on an active poll
\* leaves it closed; a close request by anyone else leaves every poll as it
\* was; and a poll goes from active to closed only in a step that is such a
\* permitted close request or a vote that fills the participant cap.
C11_CloseIsGated ==
  [][/\ \A u \in Users, p \in DOMAIN polls :
          close_poll_handler(u, p) =>
            IF u = polls[p].creator_id \/ get_permissions(users, u) = "admin"
            THEN polls[p].status = "active" => polls'[p].status = "closed"
            ELSE polls' = polls
     /\ \A p \in DOMAIN polls \cap DOMAIN polls' :
          (polls[p].status = "active" /\ polls'[p].status = "closed") =>
            \/ /\ polls[p].max_participants > 0
               /\ poll_votes' # poll_votes
               /\ DistinctVoters(poll_votes', p) >= polls[p].max_participants
            \/ \E u \in Users :
                 /\ u = polls[p].creator_id \/ get_permissions(users, u) = "admin"
                 /\ close_poll_handler(u, p)]_vars

\* a poll without a cap is closed: someone permitted has closed it by hand
C11_Witness ==
  \E p \in DOMAIN polls :
    polls[p].status = "closed" /\ polls[p].max_participants = 0

\* C12: a close request on a closed poll leaves the polls and the votes,
\* decision data included, as they were, and the creator or an admin who
\* sends it is answered that the poll is already closed.
C12_CloseIsIdempotent ==
  /\ [](\A u \in Users, p \in DOMAIN polls :
          (/\ polls[p].status = "closed"
           /\ u = polls[p].creator_id \/ get_permissions(users, u) = "admin")
            => close_poll_answer(users, polls, u, p) = "already_closed")
  /\ [][\A u \in Users, p \in DOMAIN polls :
          (polls[p].status = "closed" /\ close_poll_handler(u, p))
            => polls' = polls /\ poll_votes' = poll_votes]_vars

\* a closed poll that carries votes and a decision number
C12_Witness ==
  \E p \in DOMAIN polls :
    /\ polls[p].status = "closed"
    /\ VotesOf(poll_votes, p) # {}
    /\ polls[p].decision_number # <<>>
    /\ close_poll_answer(users, polls, polls[p].creator_id, p) = "already_closed"

\* C14 as stated: a poll's options change only in a step in which its
\* creator or an admin is in the edit wizard for that poll, and no step
\* changes the options of a closed poll.
C14_ClosedOptionsFrozen ==
  [][\A p \in DOMAIN polls \cap DOMAIN polls' :
       /\ polls'[p].options # polls[p].options
            => \E u \in Users :
                 /\ u = polls[p].creator_id \/ get_permissions(users, u) = "admin"
                 /\ user_states[u].state = "waiting_poll_options"
                 /\ user_states[u].data.type = "edit_options"
                 /\ user_states[u].data.poll_id = p
       /\ polls[p].status = "closed" => polls'[p].options = polls[p].options]_vars


(***************************************************************************)
(* C15 - C17: the sweep, the rate limiter, the flood guard                 *)
(***************************************************************************)

\* C15 as stated: with the cleanup task scheduled fairly, a poll that is still
\* active past the configured auto-close age becomes closed
C15_SweepClosesOldPolls ==
  \A p \in 1..MaxPolls :
    (p \in DOMAIN polls /\ polls[p].status = "active" /\ poll_age[p] > AutoCloseSeconds)
      ~> (p \in DOMAIN polls /\ polls[p].status = "closed")

\* C16 as stated: a permission-gated call of a user who passes the permission
\* check is granted exactly when fewer than rate_limit_hour of the user's calls
\* were granted within the window before it, whatever other users did
C16_SlidingWindowLimit ==
  [][\A u \in Users, outcome \in {"limited", "run"} :
       GatedCall(u, outcome) =>
         (outcome = "run" <=> Len(Within(granted[u], RATE_LIMIT_WINDOW)) < rate_limit_hour)]_vars

\* C17 as stated: an update of a user who has sent more than 10 updates in the
\* last 60 s, or more than 3 in the last 10 s, is not processed
C17_FloodGuardOnEveryEvent ==
  [][\A u \in Users :
       (/\ Len(inbound'[u]) = Len(inbound[u]) + 1
        /\ \/ Len(Within(inbound[u], 60)) > 10
           \/ Len(Within(inbound[u], 10)) > 3)
       => UNCHANGED dbvars]_vars

(***************************************************************************)
(* C18 - C20: the wizard sessions                                          *)
(***************************************************************************)

\* C18 as stated: when a user starts a wizard, what is left of an earlier one
\* is discarded: after the start of a simple poll, an option edit or a
\* threshold edit the user has no template session, and after the start of a
\* template instantiation that asks for a variable the user has no
\* conversation state
C18_OneLiveSession ==
  [][\A u \in Users :
       /\ (/\ \/ create_simple(u)
              \/ \E p \in DOMAIN polls : start_edit_poll_options(u, p)
              \/ \E t \in DOMAIN templates : edit_tpl_threshold(u, t)
           /\ user_states'[u] # user_states[u])
          => u \notin DOMAIN template_sessions'
       /\ (/\ \E t \in DOMAIN templates : continue_tpl(u, t)
           /\ u \in DOMAIN template_sessions'
           /\ template_sessions'[u].current_variable = 0)
          => user_states'[u].state \notin SessionExempt]_vars

AllTexts == {T_1, T_Question, T_Da, T_Net, T_Vozderzhalsya, T_A, T_B, T_C, T_blank,
             T_Net_Da, T_0, T_minus_1, T_x, T_50, T_101}

\* the rule of each wizard state: an option is not blank and at most
\* MAX_POLL_OPTION long, a cap is a non-negative integer, a threshold is an
\* integer from 1 to 100, a decision number is an integer
FailsValidation(state, text) ==
  IF state \in {"waiting_poll_option", "waiting_template_option"}
  THEN Strip(text, Whitespace) = <<>> \/ Len(text) > 100
  ELSE IF state = "waiting_max_participants"
  THEN ParseInt(text) = <<>> \/ ParseInt(text)[1] < 0
  ELSE IF state \in {"waiting_poll_threshold", "waiting_template_poll_threshold",
                     "waiting_edit_template_threshold"}
  THEN ParseInt(text) = <<>> \/ ParseInt(text)[1] < 1 \/ ParseInt(text)[1] > 100
  ELSE IF state = "waiting_decision_number_input"
  THEN ParseInt(text) = <<>>
  ELSE FALSE

\* C19 as stated: a text that fails the rule of the user's wizard state leaves
\* the user's state and payload as they were and commits nothing
C19_InvalidInputChangesNothing ==
  [][\A u \in Users, t \in AllTexts :
       (FailsValidation(user_states[u].state, t) /\ text_handler(u, t))
       => UNCHANGED <<user_states, polls, templates, issued>>]_vars

\* C20 as stated: the step that creates a poll for a user leaves that user
\* without a conversation state, and so does the step that applies an edit
C20_CommitClearsSession ==
  [][\A u \in Users :
       (\/ \E p \in DOMAIN polls' \ DOMAIN polls : polls'[p].creator_id = u
        \/ /\ user_states[u].state \in {"waiting_poll_options", "waiting_edit_template_threshold"}
           /\ \E t \in AllTexts : text_handler(u, t)
           /\ <<polls', templates'>> # <<polls, templates>>)
       => user_states'[u].state = "idle"]_vars

(***************************************************************************)
(* C21 - C22: template variables                                           *)
(***************************************************************************)

ValueOf(values, name) ==
  LET i == CHOOSE i \in 1..Len(values) : values[i][1] = name IN values[i][2]

\* the text with every {name} that has a value replaced by that value, and
\* nothing else touched
RECURSIVE FillPlaceholders(_, _)
FillPlaceholders(text, values) ==
  IF text = <<>> THEN <<>>
  ELSE LET n == VariableNameLength(text)
           name == SubSeq(text, 2, n + 1)
       IN  IF n > 0 /\ \E i \in 1..Len(values) : values[i][1] = name
           THEN ValueOf(values, name) \o FillPlaceholders(SubSeq(text, n + 3, Len(text)), values)
           ELSE <<Head(text)>> \o FillPlaceholders(Tail(text), values)

\* C21 as stated: a text typed while a variable is still unfilled becomes the
\* value of the first unfilled variable of the template's list and of no
\* other, and the question of a poll created from the template is the
\* template's question with each placeholder replaced by the value supplied
\* for it
C21_VariablesInOrder ==
  [][\A u \in Users :
       /\ \A t \in VariableValues :
            (/\ u \in DOMAIN template_sessions
             /\ user_states[u].state \notin SessionExempt
             /\ template_sessions[u].current_variable
                  < Len(template_sessions[u].variables_needed)
             /\ text_handler(u, t))
            => LET session == template_sessions[u]
                   name == session.variables_needed[session.current_variable + 1]
                   expected == Append(session.variables_values, <<name, t>>)
               IN  \/ /\ u \in DOMAIN template_sessions'
                      /\ template_sessions'[u].variables_values = expected
                      /\ template_sessions'[u].current_variable
                           = session.current_variable + 1
                   \/ /\ u \notin DOMAIN template_sessions'
                      /\ user_states'[u].data.values = expected
       /\ \A p \in DOMAIN polls' \ DOMAIN polls :
            polls'[p].creator_id = u
            => polls'[p].question =
                 FillPlaceholders(templates[user_states[u].data.template_id].question,
                                  user_states[u].data.values)]_vars

\* the text with every {name} replaced: by its value where values has the
\* name, by [name] where it has not
RECURSIVE Substituted(_, _)
Substituted(text, values) ==
  IF text = <<>> THEN <<>>
  ELSE LET n == VariableNameLength(text)
           name == SubSeq(text, 2, n + 1)
           rest == SubSeq(text, n + 3, Len(text))
       IN  IF n = 0 THEN <<Head(text)>> \o Substituted(Tail(text), values)
           ELSE IF \E i \in 1..Len(values) : values[i][1] = name
           THEN ValueOf(values, name) \o Substituted(rest, values)
           ELSE <<91>> \o name \o <<93>> \o Substituted(rest, values)

\* C22 as stated: substitute_variables returns the text with every {name}
\* replaced by its value or, without one, by [name], and the result holds no
\* {name} placeholder
C22_SubstituteResolvesAll ==
  call_out # <<>> =>
    /\ call_out[1] = Substituted(call_in.text, call_in.values)
    /\ FindVariables(call_out[1]) = <<>>

(***************************************************************************)
(* C23 - C30: expiry, users, templates, thresholds, poll creation          *)
(***************************************************************************)

\* a template session older than the timeout is deleted, or replaced by a
\* fresh one, later on
TemplateSessionsExpire ==
  \A u \in Users :
    (u \in DOMAIN template_sessions /\ session_age[u] > SESSION_TIMEOUT)
      ~> (u \notin DOMAIN template_sessions \/ session_age[u] <= SESSION_TIMEOUT)

\* a wizard state not written for longer than the timeout is removed, or
\* written again, later on
ConversationSessionsExpire ==
  \A u \in Users :
    (user_states[u].state # "idle" /\ state_age[u] > SESSION_TIMEOUT)
      ~> (user_states[u].state = "idle" \/ state_age[u] <= SESSION_TIMEOUT)

\* C23 as stated: with the cleanup task scheduled fairly, every conversation
\* session and every template session idle for longer than SESSION_TIMEOUT is
\* removed in the end, whatever wizard state it is in
C23_BothSessionsExpire == TemplateSessionsExpire /\ ConversationSessionsExpire

\* C24: a step that is no admin action - /start, a button, a typed text, each
\* of which registers its sender again - leaves the permissions of every user
\* at least as high as they were, in the order none < use < create < admin
C24_NoDowngradeOnRegistration ==
  [][~AdminAction =>
       \A v \in Users :
         PermIndex(get_permissions(users', v)) >= PermIndex(get_permissions(users, v))]_vars

\* the admin and a user granted "create" have been registered again by a vote
\* and are still what they were
C24_Witness ==
  /\ \E r \in poll_votes : r.user_id = 1
  /\ \E r \in poll_votes : r.user_id = 3
  /\ get_permissions(users, 1) = "admin"
  /\ get_permissions(users, 3) = "create"

\* what is kept about a user besides the users row
OwnData(V, US, TS, user_id) ==
  <<{r \in V : r.user_id = user_id}, US[user_id], user_id \in DOMAIN TS>>

\* C25: when an admin confirms the deletion of a user that has a row, the row
\* goes and with it every vote, the conversation state and the template
\* session of that user; when the sender is no admin nothing of the target
\* is deleted
C25_UserDeletionCascades ==
  [][\A u \in Users, target \in Targets :
       DeletesUser(u, target) =>
         IF get_permissions(users, u) = "admin"
         THEN target \in DOMAIN users =>
                /\ target \notin DOMAIN users'
                /\ OwnData(poll_votes', user_states', template_sessions', target)
                     = <<{}, IdleState, FALSE>>
         ELSE /\ \A v \in DOMAIN users \ {u} : v \in DOMAIN users' /\ users'[v] = users[v]
              /\ UNCHANGED <<poll_votes, user_states, template_sessions>>]_vars

\* user 3 is gone and so is a vote that a poll has counted
C25_Witness ==
  /\ 3 \notin DOMAIN users
  /\ 3 \notin DOMAIN template_sessions
  /\ \E p \in DOMAIN polls :
       polls[p].total_voters > Cardinality({r \in poll_votes : r.poll_id = p})

\* the user owns the template or is an admin
MayManage(user_id, template_id) ==
  \/ templates[template_id].created_by = user_id
  \/ get_permissions(users, user_id) = "admin"

\* C26 as stated: a template is deleted, or its threshold changed, only by an
\* update of its owner or of an admin
C26_TemplateOwnerOrAdmin ==
  [][\A u \in Users, t \in DOMAIN templates :
       /\ (confirm_delete_template(u, t) /\ t \notin DOMAIN templates') => MayManage(u, t)
       /\ \A text \in ThresholdTexts(u) :
            (/\ text_handler(u, text)
             /\ t \in DOMAIN templates'
             /\ templates'[t].threshold # templates[t].threshold) => MayManage(u, t)]_vars


\* C27 as stated: the decision threshold stored with every template and with
\* every poll is an integer from 1 to 100
C27_ThresholdsInRange ==
  /\ \A t \in DOMAIN templates : templates[t].threshold \in 1..100
  /\ \A p \in DOMAIN polls : polls[p].threshold \in 1..100

\* the question and the options as handed over fail a check of the claim
Rejectable(question, options) ==
  \/ Strip(question, Whitespace) = <<>>
  \/ Len(question) > MAX_POLL_QUESTION
  \/ Len(options) < 2
  \/ Len(options) > max_poll_options
  \/ \E i \in 1..Len(options) :
       Strip(options[i], Whitespace) = <<>> \/ Len(options[i]) > MAX_POLL_OPTION

C29_DuplicateWithinHourRejected ==
  [][\A q \in RepeatedQuestions, c \in RepeatingCreators :
       CreatePollAgain(q, c) =>
         IF \E p \in DOMAIN polls : /\ polls[p].creator_id = c
                                    /\ polls[p].question = q
                                    /\ polls[p].recent
         THEN polls' = polls
         ELSE DOMAIN polls' # DOMAIN polls]_vars

\* C30: a callback whose token is none of the tokens on the allow-list is
\* answered and dropped: users, polls, votes, templates, conversation states
\* and template sessions are as they were
C30_FreeFormTokenChangesNothing ==
  [][\A u \in Users, data \in FreeFormTokens :
       TokenPressed(u, data) => UNCHANGED dbvars]_vars

\* user 3 has been deleted and has pressed twice since without getting a row
C30_Witness ==
  /\ 3 \notin DOMAIN users
  /\ Len(inbound[3]) = 2

(***************************************************************************)
(* Claims C31 - C40                                                        *)
(***************************************************************************)

\* C31: whatever the wrapped handler raises, also on the call made again
\* after a RetryAfter, the wrapper of error_handler returns normally: no
\* exception leaves it.
C31_NoExceptionPropagates == call_out # <<>> => call_out[1].raised = "none"

\* C32: with the vote callbacks of different users resumed in any order at
\* their awaits, a poll with a participant cap c > 0 never holds votes of
\* more than c distinct voters, and the votes of a closed poll are not added
\* to or changed.
C32_CapHoldsUnderInterleaving ==
  /\ [](\A p \in DOMAIN polls :
          polls[p].max_participants > 0
            => DistinctVoters(poll_votes, p) <= polls[p].max_participants)
  /\ [][\A p \in DOMAIN polls :
          polls[p].status = "closed" => VotesOf(poll_votes', p) = VotesOf(poll_votes, p)]_vars

\* a poll with cap 2 has just been closed by its second voter, whose callback
\* still waits for the notification of the creator, while the callback of a
\* third user on the same poll waits at its first await
C32_Witness ==
  \E p \in DOMAIN polls :
    /\ polls[p].max_participants = 2
    /\ polls[p].status = "closed"
    /\ DistinctVoters(poll_votes, p) = 2
    /\ \E u \in Users, v \in Users :
         /\ suspended[u] = SuspendedAt("answer", p, 0)
         /\ \A r \in VotesOf(poll_votes, p) : r.user_id # u
         /\ suspended[v].at = "notify" /\ suspended[v].poll_id = p

\* C33: between two handlers, the total_voters stored with every poll is the
\* number of distinct voters that hold a vote on the poll.
C33_TotalVotersIsVoterCount ==
  \A p \in DOMAIN polls : polls[p].total_voters = DistinctVoters(poll_votes, p)

\* C34: an update sent by a user who is not admin at that moment changes no
\* user's permission, except that it may register an unknown user as "use".
C34_OnlyAdminChangesPermissions ==
  [][\A sender \in Users :
       (get_permissions(users, sender) # "admin" /\ inbound'[sender] # inbound[sender])
         => \A v \in Users :
              \/ get_permissions(users', v) = get_permissions(users, v)
              \/ v \notin DOMAIN users /\ get_permissions(users', v) = "use"]_vars

\* C35: the option index of every recorded vote is an index into the current
\* option list of its poll: 0 <= option_id < number of options.
C35_VoteIndexWithinOptions ==
  \A r \in poll_votes :
    r.poll_id \in DOMAIN polls
      => r.option_id \in 0..(Len(SplitBar(polls[r.poll_id].options)) - 1)

\* C36: the status of a poll is active or closed, and a poll that is closed
\* is closed after every step that keeps its row: votes, option edits,
\* closes, redraws, the clock and the sweep.
C36_ClosedStaysClosed ==
  /\ [](\A p \in DOMAIN polls : polls[p].status \in {"active", "closed"})
  /\ [][\A p \in DOMAIN polls :
          (polls[p].status = "closed" /\ p \in DOMAIN polls')
            => polls'[p].status = "closed"]_vars

\* a closed poll that holds a vote, an hour and a half after it was made
C36_Witness ==
  \E p \in DOMAIN polls :
    /\ polls[p].status = "closed"
    /\ VotesOf(poll_votes, p) # {}
    /\ poll_age[p] >= 3 * CleanupPeriod

\* C37: once a poll is closed, no later step changes the votes counted for
\* it or the status check_decision_status computes for it.
C37_ClosedOutcomeIsFinal ==
  [][\A p \in DOMAIN polls :
       (polls[p].status = "closed" /\ p \in DOMAIN polls')
         => /\ VotesOf(poll_votes', p) = VotesOf(poll_votes, p)
            /\ \A o \in HeadOptions(poll_votes, p) :
                 check_decision_status(polls', poll_votes', p, o)
                   = check_decision_status(polls, poll_votes, p, o)]_vars

\* C38: the status check_decision_status computes does not depend on which
\* of the options tied for the most votes heads the grouped vote counts.
C38_TieDoesNotChangeStatus ==
  \A p \in DOMAIN polls :
    \A o1 \in HeadOptions(poll_votes, p), o2 \in HeadOptions(poll_votes, p) :
      check_decision_status(polls, poll_votes, p, o1)
        = check_decision_status(polls, poll_votes, p, o2)

\* C39: in a binary or approval poll the status is not accepted when the
\* option at the head of the counts is one determine_voting_type classified
\* as negative or abstaining, and it is accepted when every vote is for an
\* option classified as affirmative (no cap, threshold 50).
C39_AffirmativeTestAgrees ==
  \A p \in DOMAIN polls :
    polls[p].voting_type \in {"binary", "approval"} =>
      \A o \in TopOptions(poll_votes, p) :
        LET text == SplitBar(polls[p].options)[o + 1]
            status == check_decision_status(polls, poll_votes, p, o)
        IN  /\ Classified(text) \in {"negative", "abstain"} => status # "accepted"
            /\ (/\ Classified(text) = "affirmative"
                /\ \A r \in VotesOf(poll_votes, p) : r.option_id = o)
                 => status = "accepted"

\* the names of the placeholders in the question and the options of a
\* template
PlaceholdersOf(template) ==
  LET texts == <<template.question>> \o SplitBar(template.options)
  IN  UNION {{FindVariables(texts[i])[k] : k \in 1..Len(FindVariables(texts[i]))} :
               i \in 1..Len(texts)}

\* C40: an instantiation session asks for every placeholder of its
\* template's question and options, and a poll made from a template holds no
\* {name} placeholder and no [name] fallback in its question or options.
C40_NoUnresolvedPlaceholder ==
  /\ \A u \in DOMAIN template_sessions :
       template_sessions[u].template_name \in DOMAIN templates
         => \A name \in PlaceholdersOf(templates[template_sessions[u].template_name]) :
              \E i \in 1..Len(template_sessions[u].variables_needed) :
                template_sessions[u].variables_needed[i] = name
  /\ \A p \in DOMAIN polls :
       LET texts == <<polls[p].question>> \o SplitBar(polls[p].options)
       IN  \A i \in 1..Len(texts) :
             /\ FindVariables(texts[i]) = <<>>
             /\ \A k \in 1..Len(texts[i]) : texts[i][k] # 91
====
